---- MODULE Spec2Model ----
(***************************************************************************)
(* Model of the practice labs:                                             *)
(*   AddressDerivationLab.svelte : ripemd160, base58Encode / base58Check,  *)
(*                                 bech32 checksum / encode, convertBits,  *)
(*                                 the address encoders, the derivation    *)
(*                                 steps and runAll                        *)
(*   LegacyTxLab.svelte          : bigintToBytes, encodeLength, rlpEncode, *)
(*                                 parseNumber, computeUnsigned,           *)
(*                                 updateKeyMaterial, signTransaction      *)
(*                                                                         *)
(* Specifications.                                                         *)
(*   - SpecRipemd, SpecRlp, SpecBase58, SpecBech32, SpecEncoders,          *)
(*     SpecEip55: one call of a codec function on an input drawn from a    *)
(*     bounded set.                                                        *)
(*   - SpecAddressLab: the address lab as a state machine of its handlers; *)
(*     an async handler is suspended at an await and resumed later.        *)
(*   - SpecAddressLabUi: the address lab driven through its buttons, a     *)
(*     disabled button not being clickable; a pending digest is delivered  *)
(*     or rejected.  SpecAddressLabUiFair adds that it is settled.         *)
(*   - SpecLegacyTx: the transaction lab as wired (input events, buttons,  *)
(*     reactive statements).                                               *)
(*   - SpecLegacyTxCalls: computeUnsigned, updateKeyMaterial and           *)
(*     signTransaction called on every form and key of the bounded sets.   *)
(*                                                                         *)
(* Providers.  SHA-256, Keccak-256 and the secp256k1 operations live       *)
(* outside the repository; each is a fixed deterministic function of its   *)
(* input with the provider's output length and error cases.                *)
(*                                                                         *)
(* Representation.                                                         *)
(*   - A Uint8Array is a sequence of naturals in 0..255.                   *)
(*   - A JavaScript string is a sequence of one-character strings.         *)
(*   - A 32-bit JavaScript integer is a pair <<hi, lo>> of 16-bit limbs    *)
(*     (the model checker's integers are 32-bit signed, so a uint32 does   *)
(*     not fit in one of them).  Shifts take their count modulo 32, as     *)
(*     the JavaScript operators <<, >>> do.                                *)
(*   - A BigInt is unbounded: it is kept as its big-endian hexadecimal     *)
(*     digit sequence without leading zero digits (0n is <<>>).            *)
(***************************************************************************)
EXTENDS Integers, Sequences, FiniteSets, TLC

VARIABLES
  fn,      \* the function or handler invoked last
  arg,     \* its argument
  ret,     \* the result of a codec call
  pc,      \* "ready" before a codec call, "done" after it
  adl,     \* the state of the AddressDerivationLab component
  tasks,   \* its async handlers suspended at an await
  ltx,     \* the state of the LegacyTxLab component
  calls,   \* the provider calls made by the handler invoked last
  subtle,  \* whether globalThis.crypto.subtle exists
  lib      \* hash160, base58Check and the bech32 address encoders, tabulated
           \* when the address lab is mounted on the byte strings it can pass

labVars == <<adl, tasks, ltx, calls, subtle, lib>>

vars == <<fn, arg, ret, pc, adl, tasks, ltx, calls, subtle, lib>>

\* no component is mounted: the codec functions are called on their own
LabsUnmounted ==
  /\ adl = <<>>
  /\ tasks = <<>>
  /\ ltx = <<>>
  /\ calls = <<>>
  /\ subtle = TRUE
  /\ lib = <<>>

\* ------------------------------------------------------------------------
\* Bit operations on naturals (each operand below 2^30)
\* ------------------------------------------------------------------------

\* a & b for a, b below 2^4
BitAnd4(a, b) ==
  ((a % 2) * (b % 2) + 2 * (((a \div 2) % 2) * ((b \div 2) % 2)))
  + (4 * (((a \div 4) % 2) * ((b \div 4) % 2)) + 8 * ((a \div 8) * (b \div 8)))

\* a & b for a, b below 2^8
BitAnd8(a, b) == BitAnd4(a % 16, b % 16) + 16 * BitAnd4(a \div 16, b \div 16)

\* a & b, byte by byte
RECURSIVE BitAnd(_, _)
BitAnd(a, b) ==
  IF a < 256 \/ b < 256 THEN BitAnd8(a % 256, b % 256)
  ELSE BitAnd8(a % 256, b % 256) + 256 * BitAnd(a \div 256, b \div 256)

BitOr(a, b) == a + b - BitAnd(a, b)

BitXor(a, b) == a + b - 2 * BitAnd(a, b)

\* ------------------------------------------------------------------------
\* 32-bit words as limb pairs <<hi, lo>>
\* ------------------------------------------------------------------------

Limb == 2 ^ 16

\* ToUint32 of a non-negative number below 2^31
ToU32(n) == << (n \div Limb) % Limb, n % Limb >>

And32(x, y) == << BitAnd(x[1], y[1]), BitAnd(x[2], y[2]) >>

Or32(x, y) == << BitOr(x[1], y[1]), BitOr(x[2], y[2]) >>

Xor32(x, y) == << BitXor(x[1], y[1]), BitXor(x[2], y[2]) >>

Not32(x) == << Limb - 1 - x[1], Limb - 1 - x[2] >>

\* (x + y) >>> 0
Add32(x, y) ==
  LET lo == x[2] + y[2]
      hi == x[1] + y[1] + (lo \div Limb)
  IN  << hi % Limb, lo % Limb >>

\* x << n : the shift count is taken modulo 32
Shl32(x, n) ==
  LET k == n % 32
  IN  IF k = 0 THEN x
      ELSE IF k < 16
        THEN << ((x[1] * (2 ^ k)) % Limb) + (x[2] \div (2 ^ (16 - k))),
                (x[2] * (2 ^ k)) % Limb >>
        ELSE << (x[2] * (2 ^ (k - 16))) % Limb, 0 >>

\* x >>> n : the shift count is taken modulo 32
Shr32(x, n) ==
  LET k == n % 32
  IN  IF k = 0 THEN x
      ELSE IF k < 16
        THEN << x[1] \div (2 ^ k),
                ((x[1] % (2 ^ k)) * (2 ^ (16 - k))) + (x[2] \div (2 ^ k)) >>
        ELSE << 0, x[1] \div (2 ^ (k - 16)) >>

\* ------------------------------------------------------------------------
\* Byte-array helpers
\* ------------------------------------------------------------------------

\* new Uint8Array(n) filled with b
Fill(n, b) == [i \in 1..n |-> b]

RECURSIVE concatBytes(_)
concatBytes(items) ==
  IF items = <<>> THEN <<>>
  ELSE Head(items) \o concatBytes(Tail(items))

\* ------------------------------------------------------------------------
\* RIPEMD-160  (AddressDerivationLab.svelte)
\* ------------------------------------------------------------------------

rol(x, n) == Or32(Shl32(x, n), Shr32(x, 32 - n))

r1 == << 0, 1, 2, 3, 4, 5, 6, 7, 8, 9, 10, 11, 12, 13, 14, 15,
         7, 4, 13, 1, 10, 6, 15, 3, 12, 0, 9, 5, 2, 14, 11, 8,
         3, 10, 14, 4, 9, 15, 8, 1, 2, 7, 0, 6, 13, 11, 5, 12,
         1, 9, 11, 10, 0, 8, 12, 4, 13, 3, 7, 15, 14, 5, 6, 2,
         4, 0, 5, 9, 7, 12, 2, 10, 14, 1, 3, 8, 11, 6, 15, 13 >>

r2 == << 5, 14, 7, 0, 9, 2, 11, 4, 13, 6, 15, 8, 1, 10, 3, 12,
         6, 11, 3, 7, 0, 13, 5, 10, 14, 15, 8, 12, 4, 9, 1, 2,
         15, 5, 1, 3, 7, 14, 6, 9, 11, 8, 12, 2, 10, 0, 4, 13,
         8, 6, 4, 1, 3, 11, 15, 0, 5, 12, 2, 13, 9, 7, 10, 14,
         12, 15, 10, 4, 1, 5, 8, 7, 6, 2, 13, 14, 0, 3, 9, 11 >>

s1 == << 11, 14, 15, 12, 5, 8, 7, 9, 11, 13, 14, 15, 6, 7, 9, 8,
         7, 6, 8, 13, 11, 9, 7, 15, 7, 12, 15, 9, 11, 7, 13, 12,
         11, 13, 6, 7, 14, 9, 13, 15, 14, 8, 13, 6, 5, 12, 7, 5,
         11, 12, 14, 15, 14, 15, 9, 8, 9, 14, 5, 6, 8, 6, 5, 12,
         9, 15, 5, 11, 6, 8, 13, 12, 5, 12, 13, 14, 11, 8, 5, 6 >>

s2 == << 8, 9, 9, 11, 13, 15, 15, 5, 7, 7, 8, 11, 14, 14, 12, 6,
         9, 13, 15, 7, 12, 8, 9, 11, 7, 7, 12, 7, 6, 15, 13, 11,
         9, 7, 15, 11, 8, 6, 6, 14, 12, 13, 5, 14, 13, 13, 7, 5,
         15, 5, 8, 11, 14, 14, 6, 14, 6, 9, 12, 9, 12, 5, 15, 8,
         8, 5, 12, 9, 12, 5, 14, 6, 8, 13, 6, 5, 15, 13, 11, 11 >>

\* j is the 0-based step number, as in the source
f(j, x, y, z) ==
  IF j <= 15 THEN Xor32(Xor32(x, y), z)
  ELSE IF j <= 31 THEN Or32(And32(x, y), And32(Not32(x), z))
  ELSE IF j <= 47 THEN Xor32(Or32(x, Not32(y)), z)
  ELSE IF j <= 63 THEN Or32(And32(x, z), And32(y, Not32(z)))
  ELSE Xor32(x, Or32(y, Not32(z)))

K1(j) ==
  IF j <= 15 THEN <<0, 0>>              \* 0x00000000
  ELSE IF j <= 31 THEN <<23170, 31129>> \* 0x5a827999
  ELSE IF j <= 47 THEN <<28377, 60321>> \* 0x6ed9eba1
  ELSE IF j <= 63 THEN <<36635, 48348>> \* 0x8f1bbcdc
  ELSE <<43347, 64846>>                 \* 0xa953fd4e

K2(j) ==
  IF j <= 15 THEN <<20642, 35814>>      \* 0x50a28be6
  ELSE IF j <= 31 THEN <<23629, 53540>> \* 0x5c4dd124
  ELSE IF j <= 47 THEN <<28016, 16115>> \* 0x6d703ef3
  ELSE IF j <= 63 THEN <<31341, 30441>> \* 0x7a6d76e9
  ELSE <<0, 0>>                         \* 0x00000000

\* h0..h4 : 0x67452301 0xefcdab89 0x98badcfe 0x10325476 0xc3d2e1f0
InitialState ==
  << <<26437, 8961>>, <<61389, 43913>>, <<39098, 56574>>,
     <<4146, 21622>>, <<50130, 57840>> >>

\* padLen = ((56 - ((input.length + 1) % 64)) + 64) % 64
padLen(n) == ((56 - ((n + 1) % 64)) + 64) % 64

\* byte i (0..7) of the length field: (bitLen >>> (8 * i)) & 0xff
LengthByte(bitLen, i) == And32(Shr32(ToU32(bitLen), 8 * i), <<0, 255>>)[2]

\* the array `padded` after lines 118-123
PadMessage(input) ==
  LET n     == Len(input)
      total == n + 1 + padLen(n) + 8
  IN  [i \in 1..total |->
         IF i <= n THEN input[i]
         ELSE IF i = n + 1 THEN 128
         ELSE IF i > total - 8 THEN LengthByte(n * 8, i - (total - 8) - 1)
         ELSE 0]

\* x[j] of the block starting at 0-based offset i
BlockWord(padded, i, j) ==
  LET k == i + j * 4
  IN  << padded[k + 4] * 256 + padded[k + 3], padded[k + 2] * 256 + padded[k + 1] >>

\* one iteration of the 80-step loop; st = <<al, bl, cl, dl, el, ar, br, cr, dr, er>>
Step(j, st, x) ==
  LET tl  == rol(Add32(Add32(Add32(st[1], f(j, st[2], st[3], st[4])),
                             x[r1[j + 1] + 1]), K1(j)), s1[j + 1])
      tl2 == Add32(tl, st[5])
      tr  == rol(Add32(Add32(Add32(st[6], f(79 - j, st[7], st[8], st[9])),
                             x[r2[j + 1] + 1]), K2(j)), s2[j + 1])
      tr2 == Add32(tr, st[10])
  IN  << st[5], tl2, st[2], rol(st[3], 10), st[4],
         st[10], tr2, st[7], rol(st[8], 10), st[9] >>

\* for (let j = from; j < from + n; j += 1) Step(j).  The range is run as
\* two halves, one after the other, which keeps the evaluation depth
\* logarithmic; the test on Len(st) makes the state a value before the steps
\* that read it start.
RECURSIVE Steps(_, _, _, _)
Steps(from, n, st, x) ==
  IF Len(st) # 10 THEN <<>>
  ELSE IF n = 0 THEN st
  ELSE IF n = 1 THEN Step(from, st, x)
  ELSE Steps(from + (n \div 2), n - (n \div 2), Steps(from, n \div 2, st, x), x)

\* one iteration of the block loop: h = <<h0, h1, h2, h3, h4>>
Compress(h, padded, i) ==
  LET x  == [j \in 1..16 |-> BlockWord(padded, i, j - 1)]
      st == Steps(0, 80, h \o h, x)
  IN  << Add32(Add32(h[2], st[3]), st[9]),
         Add32(Add32(h[3], st[4]), st[10]),
         Add32(Add32(h[4], st[5]), st[6]),
         Add32(Add32(h[5], st[1]), st[7]),
         Add32(Add32(h[1], st[2]), st[8]) >>

RECURSIVE Blocks(_, _, _)
Blocks(h, padded, i) ==
  IF Len(h) # 5 THEN <<>>
  ELSE IF i >= Len(padded) THEN h
  ELSE Blocks(Compress(h, padded, i), padded, i + 64)

\* the four bytes of a word, little-endian
WordBytes(w) == << w[2] % 256, w[2] \div 256, w[1] % 256, w[1] \div 256 >>

ripemd160(input) ==
  LET h == Blocks(InitialState, PadMessage(input), 0)
  IN  WordBytes(h[1]) \o WordBytes(h[2]) \o WordBytes(h[3])
        \o WordBytes(h[4]) \o WordBytes(h[5])

\* ------------------------------------------------------------------------
\* Specification of the RIPEMD-160 calls
\* ------------------------------------------------------------------------

MaxHashLen == 20

FillBytes == {0, 97, 255}

\* lengths around the 56-byte and 64-byte padding boundaries
BoundaryLens == {55, 56, 63, 64}

Abc == <<97, 98, 99>>

RipemdInputs ==
  { Fill(n, b) : n \in (0..MaxHashLen) \cup BoundaryLens, b \in FillBytes }
    \cup {Abc}

InitRipemd ==
  /\ fn = "ripemd160"
  /\ arg \in RipemdInputs
  /\ ret = <<>>
  /\ pc = "ready"
  /\ LabsUnmounted

CallRipemd160 ==
  /\ pc = "ready"
  /\ fn = "ripemd160"
  /\ ret' = ripemd160(arg)
  /\ pc' = "done"
  /\ UNCHANGED <<fn, arg, labVars>>

NextRipemd == CallRipemd160

SpecRipemd == InitRipemd /\ [][NextRipemd]_vars

RECURSIVE LittleEndian(_, _)
LittleEndian(v, k) ==
  IF k = 0 THEN <<>> ELSE <<v % 256>> \o LittleEndian(v \div 256, k - 1)

\* input || 0x80 || zero bytes up to a length = 56 (mod 64) || 8*n as a
\* 64-bit little-endian integer
StandardPadding(input) ==
  LET n == Len(input)
      z == CHOOSE k \in 0..63 : (n + 1 + k) % 64 = 56
  IN  input \o <<128>> \o Fill(z, 0) \o LittleEndian(8 * n, 8)

\* C1: the padded message of ripemd160 is input || 0x80 || zeros up to
\* length = 56 (mod 64) || 8*n as 64-bit little-endian; for a non-empty input
\* (8*n < 2^32) its final four bytes are zero.
C1_PaddedMessageIsStandard ==
  (pc = "done" /\ fn = "ripemd160") =>
    LET padded == PadMessage(arg)
        total  == Len(padded)
    IN  /\ padded = StandardPadding(arg)
        /\ Len(arg) > 0 => \A i \in (total - 3)..total : padded[i] = 0

\* 9c1185a5c5e9fc54612808977ee8f548b2258d31
DigestOfEmpty ==
  << 156, 17, 133, 165, 197, 233, 252, 84, 97, 40,
     8, 151, 126, 232, 245, 72, 178, 37, 141, 49 >>

\* 8eb208f7e05d987a9b044a8e98c6b087f15a0bfc
DigestOfAbc ==
  << 142, 178, 8, 247, 224, 93, 152, 122, 155, 4,
     74, 142, 152, 198, 176, 135, 241, 90, 11, 252 >>

\* C2: ripemd160 matches the known-answer vectors for "" and "abc".
C2_KnownAnswerVectors ==
  (pc = "done" /\ fn = "ripemd160") =>
    /\ arg = <<>> => ret = DigestOfEmpty
    /\ arg = Abc => ret = DigestOfAbc

\* ------------------------------------------------------------------------
\* Hex strings and BigInt  (LegacyTxLab.svelte)
\* A BigInt is its sequence of hexadecimal digits 0..15, most significant
\* first, without a leading zero digit; 0n is the empty sequence.
\* ------------------------------------------------------------------------

HexLower == << "0", "1", "2", "3", "4", "5", "6", "7",
               "8", "9", "a", "b", "c", "d", "e", "f" >>

HexUpper == << "0", "1", "2", "3", "4", "5", "6", "7",
               "8", "9", "A", "B", "C", "D", "E", "F" >>

Whitespace == {" ", "\t", "\n"}

\* /^[0-9a-fA-F]*$/.test(value)
isHex(value) ==
  \A i \in 1..Len(value) :
    \E d \in 1..16 : value[i] = HexLower[d] \/ value[i] = HexUpper[d]

\* the value of one hexadecimal character
HexVal(c) == (CHOOSE d \in 1..16 : c = HexLower[d] \/ c = HexUpper[d]) - 1

RECURSIVE TrimStart(_)
TrimStart(value) ==
  IF value # <<>> /\ Head(value) \in Whitespace THEN TrimStart(Tail(value))
  ELSE value

RECURSIVE TrimEnd(_)
TrimEnd(value) ==
  IF value # <<>> /\ value[Len(value)] \in Whitespace
  THEN TrimEnd(SubSeq(value, 1, Len(value) - 1))
  ELSE value

\* value.trim()
trim(value) == TrimEnd(TrimStart(value))

\* value.trim().replace(/^0x/i, '')
strip0x(value) ==
  LET t == trim(value)
  IN  IF Len(t) >= 2 /\ t[1] = "0" /\ t[2] \in {"x", "X"}
      THEN SubSeq(t, 3, Len(t))
      ELSE t

\* the result of a call that may throw: error = "" when it returned `value`
Return(v) == [error |-> "", value |-> v]

Throw(message) == [error |-> message, value |-> <<>>]

fromHex(value) ==
  LET normalized == strip0x(value)
  IN  IF normalized = <<>> THEN Return(<<>>)
      ELSE IF Len(normalized) % 2 # 0
        THEN Throw("Hex string must have an even length.")
      ELSE IF ~isHex(normalized)
        THEN Throw("Hex string contains invalid characters.")
      ELSE Return([i \in 1..(Len(normalized) \div 2) |->
                     16 * HexVal(normalized[2 * i - 1]) + HexVal(normalized[2 * i])])

\* BigInt(n) of a non-negative Number n
RECURSIVE BigInt(_)
BigInt(n) == IF n = 0 THEN <<>> ELSE BigInt(n \div 16) \o <<n % 16>>

\* value.toString(16)
toString16(value) ==
  IF value = <<>> THEN <<"0">>
  ELSE [i \in 1..Len(value) |-> HexLower[value[i] + 1]]

\* bigintToBytes padding an odd-length hex string at its end
bigintToBytes_PadRight(value) ==
  IF value = <<>> THEN <<>>
  ELSE LET hex == toString16(value)
       IN  fromHex(IF Len(hex) % 2 # 0 THEN hex \o <<"0">> ELSE hex).value

bigintToBytes(value) ==
  IF value = <<>> THEN <<>>
  ELSE LET hex == toString16(value)
       IN  fromHex(IF Len(hex) % 2 # 0 THEN <<"0">> \o hex ELSE hex).value

\* ------------------------------------------------------------------------
\* RLP  (LegacyTxLab.svelte)
\* An rlpEncode input is tagged: a Uint8Array, or an array of inputs.
\* ------------------------------------------------------------------------

Bytes(b) == [tag |-> "bytes", val |-> b]

List(items) == [tag |-> "list", val |-> items]

\* an array of Uint8Array
ListOfBytes(bs) == List([i \in 1..Len(bs) |-> Bytes(bs[i])])

RECURSIVE rlpEncode(_)

\* encodeLength taking the short form up to and including 56
encodeLength_ShortUpTo56(len, offset) ==
  IF len <= 56 THEN <<len + offset>>
  ELSE LET lenBytes == bigintToBytes(BigInt(len))
       IN  concatBytes(<< <<offset + 55 + Len(lenBytes)>>, lenBytes >>)

encodeLength(len, offset) ==
  IF len < 56 THEN <<len + offset>>
  ELSE LET lenBytes == bigintToBytes(BigInt(len))
       IN  concatBytes(<< <<offset + 55 + Len(lenBytes)>>, lenBytes >>)

\* rlpEncode framing a list with the byte-string offset
rlpEncode_ListAsString(input) ==
  IF input.tag = "bytes"
  THEN IF Len(input.val) = 1 /\ input.val[1] < 128 THEN input.val
       ELSE concatBytes(<< encodeLength(Len(input.val), 128), input.val >>)
  ELSE LET output  == [i \in 1..Len(input.val) |-> rlpEncode(input.val[i])]
           payload == concatBytes(output)
       IN  concatBytes(<< encodeLength(Len(payload), 128), payload >>)

\* rlpEncode returning a single byte <= 0x80 as itself
rlpEncode_SingleByteLe(input) ==
  IF input.tag = "bytes"
  THEN IF Len(input.val) = 1 /\ input.val[1] <= 128 THEN input.val
       ELSE concatBytes(<< encodeLength(Len(input.val), 128), input.val >>)
  ELSE LET output  == [i \in 1..Len(input.val) |-> rlpEncode(input.val[i])]
           payload == concatBytes(output)
       IN  concatBytes(<< encodeLength(Len(payload), 192), payload >>)

rlpEncode(input) ==
  IF input.tag = "bytes"
  THEN IF Len(input.val) = 1 /\ input.val[1] < 128 THEN input.val
       ELSE concatBytes(<< encodeLength(Len(input.val), 128), input.val >>)
  ELSE LET output  == [i \in 1..Len(input.val) |-> rlpEncode(input.val[i])]
           payload == concatBytes(output)
       IN  concatBytes(<< encodeLength(Len(payload), 192), payload >>)

\* ------------------------------------------------------------------------
\* Specification of the RLP calls
\* ------------------------------------------------------------------------

MaxStrLen == 2

MaxListLen == 3

MaxBigDigits == 3

RlpBytes == {0, 127, 128, 192}

ShortStrings == UNION { [1..n -> RlpBytes] : n \in 0..MaxStrLen }

\* lengths around the 56-byte and 256-byte framing boundaries
LongStrings == { Fill(n, b) : n \in {55, 56, 57, 255, 256, 257}, b \in {0, 200} }

ItemStrings == { <<>>, <<0>>, <<127>>, <<128>>, <<192>> }

ShortLists == UNION { [1..n -> ItemStrings] : n \in 0..MaxListLen }

\* lists whose payload is 54 .. 57, 255 and 256 bytes long
LongLists ==
  { <<Fill(n, b)>> : n \in {53, 54, 55, 253, 254}, b \in {0, 200} }
    \cup { <<Fill(n, 9), Fill(26, 9)>> : n \in {26, 27, 28, 29} }

RlpInputs ==
  { Bytes(b) : b \in ShortStrings \cup LongStrings }
    \cup { ListOfBytes(l) : l \in ShortLists \cup LongLists }

\* 0x4a817c800 = 20000000000, 2^32, 2^32 - 1, 2^31
BigSamples ==
  { <<4, 10, 8, 1, 7, 12, 8, 0, 0>>, <<1, 0, 0, 0, 0, 0, 0, 0, 0>>,
    <<15, 15, 15, 15, 15, 15, 15, 15>>, <<8, 0, 0, 0, 0, 0, 0, 0>> }

\* every BigInt below 16^MaxBigDigits, and the samples
BigIntInputs ==
  { d \in UNION { [1..n -> 0..15] : n \in 0..MaxBigDigits } : d = <<>> \/ d[1] # 0 }
    \cup BigSamples

InitRlp ==
  /\ \/ fn = "rlpEncode" /\ arg \in RlpInputs
     \/ fn = "bigintToBytes" /\ arg \in BigIntInputs
  /\ ret = <<>>
  /\ pc = "ready"
  /\ LabsUnmounted

CallRlpEncode ==
  /\ pc = "ready"
  /\ fn = "rlpEncode"
  /\ ret' = rlpEncode(arg)
  /\ pc' = "done"
  /\ UNCHANGED <<fn, arg, labVars>>

CallBigintToBytes ==
  /\ pc = "ready"
  /\ fn = "bigintToBytes"
  /\ ret' = bigintToBytes(arg)
  /\ pc' = "done"
  /\ UNCHANGED <<fn, arg, labVars>>

NextRlp == CallRlpEncode \/ CallBigintToBytes

SpecRlp == InitRlp /\ [][NextRlp]_vars

\* the minimal big-endian bytes of a length 56 <= n < 2^24
LengthBytes(n) ==
  IF n < 256 THEN <<n>>
  ELSE IF n < 65536 THEN <<n \div 256, n % 256>>
  ELSE <<n \div 65536, (n \div 256) % 256, n % 256>>

\* the length prefix of a payload of n bytes: short base 0x80 / 0xc0, long
\* base 0xb7 / 0xf7
Framing(n, short, long) ==
  IF n < 56 THEN <<short + n>>
  ELSE <<long + Len(LengthBytes(n))>> \o LengthBytes(n)

\* C3: a byte string b encodes as itself when it is one byte < 0x80, else as
\* 0x80+len(b) || b when len(b) < 56, else as 0xb7+k || the k-byte minimal
\* big-endian len(b) || b.
C3_ByteStringEncoding ==
  (pc = "done" /\ fn = "rlpEncode" /\ arg.tag = "bytes") =>
    LET b == arg.val
    IN  ret = IF Len(b) = 1 /\ b[1] < 128 THEN b
              ELSE Framing(Len(b), 128, 183) \o b

C3_Witness ==
  /\ pc = "done" /\ fn = "rlpEncode" /\ arg.tag = "bytes"
  /\ Len(arg.val) = 256
  /\ SubSeq(ret, 1, 3) = <<185, 1, 0>>

RECURSIVE Concat(_)
Concat(seqs) == IF seqs = <<>> THEN <<>> ELSE Head(seqs) \o Concat(Tail(seqs))

\* C4: a list encodes as the concatenation P of its elements' encodings,
\* prefixed by 0xc0+len(P) when len(P) < 56 and else by 0xf7+k || the k-byte
\* minimal big-endian len(P); the empty list is the single byte 0xc0.
C4_ListEncoding ==
  (pc = "done" /\ fn = "rlpEncode" /\ arg.tag = "list") =>
    LET P == Concat([i \in 1..Len(arg.val) |-> rlpEncode(arg.val[i])])
    IN  /\ ret = Framing(Len(P), 192, 247) \o P
        /\ arg.val = <<>> => ret = <<192>>

C4_Witness ==
  /\ pc = "done" /\ fn = "rlpEncode" /\ arg.tag = "list"
  /\ Len(arg.val) = 2
  /\ SubSeq(ret, 1, 2) = <<248, 56>>

RECURSIVE StripZeros(_)
StripZeros(digits) ==
  IF digits # <<>> /\ Head(digits) = 0 THEN StripZeros(Tail(digits)) ELSE digits

\* the hexadecimal digits of a byte string
Nibbles(bytes) ==
  [i \in 1..(2 * Len(bytes)) |->
     IF i % 2 = 1 THEN bytes[(i + 1) \div 2] \div 16 ELSE bytes[i \div 2] % 16]

\* the number written by `digits` in base `base`, most significant first
RECURSIVE NumberOf(_, _)
NumberOf(digits, base) ==
  IF digits = <<>> THEN 0
  ELSE base * NumberOf(SubSeq(digits, 1, Len(digits) - 1), base) + digits[Len(digits)]

\* C5: bigintToBytes(n) is the minimal big-endian representation of n: empty
\* for 0, first byte non-zero for n > 0, and it reads back as n; so the
\* integer zero RLP-encodes as the single byte 0x80.
C5_MinimalBigEndian ==
  (pc = "done" /\ fn = "bigintToBytes") =>
    /\ arg = <<>> => (ret = <<>> /\ rlpEncode(Bytes(ret)) = <<128>>)
    /\ arg # <<>> => (ret # <<>> /\ ret[1] # 0)
    /\ \A i \in 1..Len(ret) : ret[i] \in 0..255
    /\ StripZeros(Nibbles(ret)) = arg
    /\ Len(arg) <= 7 => NumberOf(ret, 256) = NumberOf(arg, 16)

C5_Witness ==
  /\ pc = "done" /\ fn = "bigintToBytes"
  /\ arg = <<4, 10, 8, 1, 7, 12, 8, 0, 0>>
  /\ ret = <<4, 168, 23, 200, 0>>

\* every input of the domain with its encoding
RlpEncodings == { <<y, rlpEncode(y)>> : y \in RlpInputs }

\* C6: rlpEncode is injective on byte strings and lists of byte strings: two
\* inputs with the same encoding have the same tag and the same contents.
C6_Injective ==
  (pc = "done" /\ fn = "rlpEncode") =>
    \A p \in RlpEncodings : p[2] = ret => p[1] = arg

\* the byte string 0xc0 (the encoding of the empty list) has been encoded
C6_Witness ==
  /\ pc = "done" /\ fn = "rlpEncode" /\ arg = Bytes(<<192>>)
  /\ ret = <<129, 192>>
  /\ <<ListOfBytes(<<>>), <<192>>>> \in RlpEncodings

\* ------------------------------------------------------------------------
\* BigInt arithmetic used by base58Encode  (AddressDerivationLab.svelte)
\* ------------------------------------------------------------------------

RECURSIVE DropLeadingZeros(_)
DropLeadingZeros(digits) ==
  IF digits # <<>> /\ Head(digits) = 0 THEN DropLeadingZeros(Tail(digits))
  ELSE digits

\* (value << 8n) | BigInt(byte)
ShlOr8(value, byte) == DropLeadingZeros(value \o << byte \div 16, byte % 16 >>)

\* for (const byte of bytes[lo..hi]) value = (value << 8n) | BigInt(byte).
\* The range is run as two halves, one after the other, which keeps the
\* evaluation depth logarithmic; the test on Len(value) makes the number so
\* far a value before the bytes that follow are shifted in.
RECURSIVE ShiftInBytes(_, _, _, _)
ShiftInBytes(bytes, lo, hi, value) ==
  IF Len(value) < 0 THEN <<>>
  ELSE IF lo > hi THEN value
  ELSE IF lo = hi THEN ShlOr8(value, bytes[lo])
  ELSE ShiftInBytes(bytes, ((lo + hi) \div 2) + 1, hi,
                    ShiftInBytes(bytes, lo, (lo + hi) \div 2, value))

BytesToBigInt(bytes) == ShiftInBytes(bytes, 1, Len(bytes), <<>>)

\* long division of the digits value[lo..hi] by m; st = << quotient digits,
\* remainder >> so far.  The range is run as two halves, as above.
RECURSIVE LongDivision(_, _, _, _, _)
LongDivision(value, lo, hi, st, m) ==
  IF Len(st) # 2 THEN <<>>
  ELSE IF lo > hi THEN st
  ELSE IF lo = hi
    THEN << Append(st[1], (st[2] * 16 + value[lo]) \div m),
            (st[2] * 16 + value[lo]) % m >>
  ELSE LongDivision(value, ((lo + hi) \div 2) + 1, hi,
                    LongDivision(value, lo, (lo + hi) \div 2, st, m), m)

Normalized(qr) == << DropLeadingZeros(qr[1]), qr[2] >>

\* << value / m, Number(value % m) >> for a BigInt value and 1 < m < 2^24
BigDivMod(value, m) ==
  Normalized(LongDivision(value, 1, Len(value), << <<>>, 0 >>, m))

\* ------------------------------------------------------------------------
\* Base58Check  (AddressDerivationLab.svelte)
\* ------------------------------------------------------------------------

alphabet ==
  << "1", "2", "3", "4", "5", "6", "7", "8", "9",
     "A", "B", "C", "D", "E", "F", "G", "H", "J", "K", "L", "M", "N", "P", "Q",
     "R", "S", "T", "U", "V", "W", "X", "Y", "Z",
     "a", "b", "c", "d", "e", "f", "g", "h", "i", "j", "k", "m", "n", "o", "p",
     "q", "r", "s", "t", "u", "v", "w", "x", "y", "z" >>

\* encoded = alphabet[remainder] + encoded; value = value / 58n,
\* for qr = << value / 58n, remainder >>
PrependDigit(qr, encoded) == << qr[1], << alphabet[qr[2] + 1] >> \o encoded >>

\* one pass of while (value > 0n) { ... } on st = << value, encoded >>;
\* the loop has ended when value is 0n
EncodeStep(st) ==
  IF st[1] = <<>> THEN st ELSE PrependDigit(BigDivMod(st[1], 58), st[2])

\* n passes of the loop, run as two halves one after the other
RECURSIVE EncodeLoop(_, _)
EncodeLoop(n, st) ==
  IF Len(st) # 2 THEN <<>>
  ELSE IF n = 0 THEN st
  ELSE IF n = 1 THEN EncodeStep(st)
  ELSE EncodeLoop(n - (n \div 2), EncodeLoop(n \div 2, st))

\* the string `encoded` when the loop ends: a value of n hexadecimal digits
\* is 0n after at most n divisions by 58
EncodeValue(value) == EncodeLoop(Len(value), << value, <<>> >>)[2]

\* while (zeroPrefix < bytes.length && bytes[zeroPrefix] === 0) zeroPrefix += 1
RECURSIVE ZeroPrefix(_, _)
ZeroPrefix(bytes, zeroPrefix) ==
  IF zeroPrefix < Len(bytes) /\ bytes[zeroPrefix + 1] = 0
  THEN ZeroPrefix(bytes, zeroPrefix + 1)
  ELSE zeroPrefix

\* base58Encode without the '1' characters of the leading zero bytes
base58Encode_NoZeroPrefix(bytes) == EncodeValue(BytesToBigInt(bytes))

base58Encode(bytes) ==
  Fill(ZeroPrefix(bytes, 0), "1") \o EncodeValue(BytesToBigInt(bytes))

\* The SHA-256 provider (Web Crypto) is outside the repository.  It is a
\* fixed function from byte strings to 32 bytes; the model takes this one.
RECURSIVE WeightedSum(_, _, _)
WeightedSum(input, lo, hi) ==
  IF lo > hi THEN 0
  ELSE IF lo = hi THEN (input[lo] + 1) * (lo + 2)
  ELSE (WeightedSum(input, lo, (lo + hi) \div 2) * 31
          + WeightedSum(input, ((lo + hi) \div 2) + 1, hi)) % 65521

sha256(input) ==
  [i \in 1..32 |-> (WeightedSum(input, 1, Len(input)) * (2 * i + 1) + 7 * i) % 256]

doubleSha256(input) == sha256(sha256(input))

hash160(input) == ripemd160(sha256(input))

\* base58Check encoding the body without its checksum
base58Check_NoChecksum(version, payload) ==
  base58Encode(concatBytes(<< <<version>>, payload >>))

base58Check(version, payload) ==
  LET body     == concatBytes(<< <<version>>, payload >>)
      checksum == SubSeq(doubleSha256(body), 1, 4)
  IN  base58Encode(concatBytes(<< body, checksum >>))

\* ------------------------------------------------------------------------
\* Specification of the Base58 calls
\* ------------------------------------------------------------------------

MaxB58Len == 3

MaxPayloadLen == 2

B58Bytes == {0, 1, 57, 58, 255}

\* version 0x00, a 20-byte hash and 4 checksum bytes: the address
\* 16UwLL9Risc3QfPqBUvKofHmBQ7wMtjvM
SampleAddressBytes ==
  << 0, 1, 9, 102, 119, 96, 6, 149, 61, 85, 103, 67, 158, 94, 57, 248, 106, 13, 39, 59, 238, 214, 25, 103, 246 >>

SampleAddress ==
  << "1", "6", "U", "w", "L", "L", "9", "R", "i", "s", "c", "3", "Q", "f", "P", "q", "B", "U", "v", "K", "o", "f", "H", "m", "B", "Q", "7", "w", "M", "t", "j", "v", "M" >>

Base58Inputs ==
  UNION { [1..n -> B58Bytes] : n \in 0..MaxB58Len } \cup {SampleAddressBytes}

\* 0x00 (P2PKH), 0x05 (P2SH) and 0xff
Versions == {0, 5, 255}

Payloads ==
  UNION { [1..n -> {0, 1, 255}] : n \in 0..MaxPayloadLen }
    \cup { SubSeq(SampleAddressBytes, 2, 21), Fill(20, 0) }

Base58CheckInputs == [version : Versions, payload : Payloads]

InitBase58 ==
  /\ \/ fn = "base58Encode" /\ arg \in Base58Inputs
     \/ fn = "base58Check" /\ arg \in Base58CheckInputs
  /\ ret = <<>>
  /\ pc = "ready"
  /\ LabsUnmounted

CallBase58Encode ==
  /\ pc = "ready"
  /\ fn = "base58Encode"
  /\ ret' = base58Encode(arg)
  /\ pc' = "done"
  /\ UNCHANGED <<fn, arg, labVars>>

CallBase58Check ==
  /\ pc = "ready"
  /\ fn = "base58Check"
  /\ ret' = base58Check(arg.version, arg.payload)
  /\ pc' = "done"
  /\ UNCHANGED <<fn, arg, labVars>>

NextBase58 == CallBase58Encode \/ CallBase58Check

SpecBase58 == InitBase58 /\ [][NextBase58]_vars

\* the number of leading elements of seq equal to x
CountLeading(seq, x) ==
  CHOOSE k \in 0..Len(seq) :
    /\ \A i \in 1..k : seq[i] = x
    /\ k = Len(seq) \/ seq[k + 1] # x

\* the digit a base-58 character stands for
CharIndex(c) == (CHOOSE i \in 1..58 : alphabet[i] = c) - 1

\* the digits value[lo..hi] times m, from the last digit to the first, on
\* st = << carry, digits so far >>; the range is run as two halves
RECURSIVE MulAddDigits(_, _, _, _, _)
MulAddDigits(value, lo, hi, st, m) ==
  IF Len(st) # 2 THEN <<>>
  ELSE IF lo > hi THEN st
  ELSE IF lo = hi
    THEN << (value[lo] * m + st[1]) \div 16,
            << (value[lo] * m + st[1]) % 16 >> \o st[2] >>
  ELSE MulAddDigits(value, lo, (lo + hi) \div 2,
                    MulAddDigits(value, ((lo + hi) \div 2) + 1, hi, st, m), m)

CarryAndDigits(st) == BigInt(st[1]) \o st[2]

\* value * m + carry on hexadecimal digits, most significant first
MulAdd(value, m, carry) ==
  CarryAndDigits(MulAddDigits(value, 1, Len(value), << carry, <<>> >>, m))

\* the number the characters str[lo..hi] append to `value`, the range run as
\* two halves
RECURSIVE Base58Fold(_, _, _, _)
Base58Fold(str, lo, hi, value) ==
  IF Len(value) < 0 THEN <<>>
  ELSE IF lo > hi THEN value
  ELSE IF lo = hi THEN StripZeros(MulAdd(value, 58, CharIndex(str[lo])))
  ELSE Base58Fold(str, ((lo + hi) \div 2) + 1, hi,
                  Base58Fold(str, lo, (lo + hi) \div 2, value))

\* the number a base-58 numeral writes, as hexadecimal digits without leading zeros
Base58Value(str) == Base58Fold(str, 1, Len(str), <<>>)

\* the minimal big-endian bytes of hexadecimal digits
BytesOfDigits(digits) ==
  LET even == IF Len(digits) % 2 = 1 THEN <<0>> \o digits ELSE digits
  IN  [i \in 1..(Len(even) \div 2) |-> 16 * even[2 * i - 1] + even[2 * i]]

\* the structural inverse of base58Encode: leading '1' characters are zero
\* bytes, the rest is a base-58 big-endian numeral
Base58Decode(str) ==
  LET ones == CountLeading(str, "1")
  IN  Fill(ones, 0) \o BytesOfDigits(Base58Value(SubSeq(str, ones + 1, Len(str))))

\* C7: the output of base58Encode starts with exactly as many '1' characters
\* as the input has leading zero bytes, and the remaining characters are the
\* base-58 big-endian numeral of the input's value (none when it is zero).
C7_LeadingOnesAndNumeral ==
  (pc = "done" /\ fn = "base58Encode") =>
    LET ones == CountLeading(ret, "1")
        rest == SubSeq(ret, ones + 1, Len(ret))
    IN  /\ ones = CountLeading(arg, 0)
        /\ \A i \in 1..Len(ret) : \E k \in 1..58 : ret[i] = alphabet[k]
        /\ Base58Value(rest) = StripZeros(Nibbles(arg))
        /\ rest = <<>> <=> (\A i \in 1..Len(arg) : arg[i] = 0)
        /\ Len(arg) <= 3 =>
             NumberOf([i \in 1..Len(rest) |-> CharIndex(rest[i])], 58) = NumberOf(arg, 256)

C7_Witness ==
  /\ pc = "done" /\ fn = "base58Encode"
  /\ arg = SampleAddressBytes
  /\ ret = SampleAddress

\* every input of the domain with its encoding
Base58CheckOutputs ==
  { <<a, base58Check(a.version, a.payload)>> : a \in Base58CheckInputs }

\* C8: decoding base58Check(v, p) (base-58 decode with the leading '1'
\* characters restored as zero bytes, then dropping the 4 checksum bytes)
\* gives v followed by p, and no two (v, p) pairs share a string.
C8_RoundTrip ==
  (pc = "done" /\ fn = "base58Check") =>
    LET decoded == Base58Decode(ret)
    IN  /\ Len(decoded) = Len(arg.payload) + 5
        /\ SubSeq(decoded, 1, Len(decoded) - 4) = <<arg.version>> \o arg.payload
        /\ \A q \in Base58CheckOutputs : q[2] = ret => q[1] = arg

C8_Witness ==
  /\ pc = "done" /\ fn = "base58Check"
  /\ arg = [version |-> 0, payload |-> <<0, 0>>]
  /\ CountLeading(ret, "1") >= 3
  /\ Len(ret) > 3

\* ------------------------------------------------------------------------
\* Bech32  (AddressDerivationLab.svelte)
\* ------------------------------------------------------------------------

\* the ASCII characters of codes 32..95 and of codes 97..126
AsciiFrom32 ==
  << " ", "!", "\"", "#", "$", "%", "&", "'", "(", ")", "*", "+", ",", "-", ".", "/",
     "0", "1", "2", "3", "4", "5", "6", "7", "8", "9", ":", ";", "<", "=", ">", "?",
     "@", "A", "B", "C", "D", "E", "F", "G", "H", "I", "J", "K", "L", "M", "N", "O",
     "P", "Q", "R", "S", "T", "U", "V", "W", "X", "Y", "Z", "[", "\\", "]", "^", "_" >>

AsciiFrom97 ==
  << "a", "b", "c", "d", "e", "f", "g", "h", "i", "j", "k", "l", "m", "n", "o",
     "p", "q", "r", "s", "t", "u", "v", "w", "x", "y", "z", "{", "|", "}", "~" >>

\* c.charCodeAt(0) of a printable ASCII character, a tab or a line feed
charCodeAt(c) ==
  IF c = "\t" THEN 9
  ELSE IF c = "\n" THEN 10
  ELSE IF \E i \in 1..Len(AsciiFrom32) : AsciiFrom32[i] = c
  THEN 31 + (CHOOSE i \in 1..Len(AsciiFrom32) : AsciiFrom32[i] = c)
  ELSE 96 + (CHOOSE i \in 1..Len(AsciiFrom97) : AsciiFrom97[i] = c)

\* 'qpzry9x8gf2tvdw0s3jn54khce6mua7l'
BECH32_CHARSET ==
  << "q", "p", "z", "r", "y", "9", "x", "8", "g", "f", "2", "t", "v", "d", "w", "0",
     "s", "3", "j", "n", "5", "4", "k", "h", "c", "e", "6", "m", "u", "a", "7", "l" >>

\* 0x3b6a57b2, 0x26508e6d, 0x1ea119fa, 0x3d4233dd, 0x2a1462b3
BECH32_GENERATORS ==
  << 996825010, 642813549, 513874426, 1027748829, 705979059 >>

\* for (let i = from; i < 5; i += 1) if ((top >>> i) & 1) chk ^= GENERATORS[i]
RECURSIVE XorGenerators(_, _, _)
XorGenerators(chk, top, i) ==
  IF i = 5 THEN chk
  ELSE XorGenerators(IF (top \div (2 ^ i)) % 2 = 1
                       THEN BitXor(chk, BECH32_GENERATORS[i + 1])
                       ELSE chk,
                     top, i + 1)

\* the body of the loop of bech32Polymod.  chk stays below 2^30 when every
\* value is below 2^30, so no 32-bit operation wraps:
\* chk >>> 25 is chk \div 2^25 and chk & 0x1ffffff is chk % 2^25.
PolymodStep(chk, value) ==
  XorGenerators(BitXor((chk % (2 ^ 25)) * 32, value), chk \div (2 ^ 25), 0)

\* for (const value of values[lo..hi]) chk = PolymodStep(chk, value).  The
\* range is run as two halves, one after the other; the test on chk makes it
\* a value before the values that follow are read.
RECURSIVE PolymodRange(_, _, _, _)
PolymodRange(values, lo, hi, chk) ==
  IF chk < 0 THEN 0
  ELSE IF lo > hi THEN chk
  ELSE IF lo = hi THEN PolymodStep(chk, values[lo])
  ELSE PolymodRange(values, ((lo + hi) \div 2) + 1, hi,
                    PolymodRange(values, lo, (lo + hi) \div 2, chk))

bech32Polymod(values) == PolymodRange(values, 1, Len(values), 1)

bech32HrpExpand(hrp) ==
  LET n == Len(hrp)
  IN  [i \in 1..(2 * n + 1) |->
         IF i <= n THEN charCodeAt(hrp[i]) \div 32
         ELSE IF i = n + 1 THEN 0
         ELSE charCodeAt(hrp[i - n - 1]) % 32]

\* checksum[i] = (mod >>> (5 * (5 - i))) & 31 for i = 0..5
ChecksumSymbols(mod) == [i \in 1..6 |-> (mod \div (2 ^ (5 * (6 - i)))) % 32]

\* bech32CreateChecksum without the final ^ 1
bech32CreateChecksum_NoXor(hrp, data) ==
  ChecksumSymbols(bech32Polymod(bech32HrpExpand(hrp) \o data \o Fill(6, 0)))

bech32CreateChecksum(hrp, data) ==
  ChecksumSymbols(
    BitXor(bech32Polymod(bech32HrpExpand(hrp) \o data \o Fill(6, 0)), 1))

\* BECH32_CHARSET[v] as a string: undefined (v outside 0..31) joins as ''
CharsetAt(v) == IF v \in 0..31 THEN << BECH32_CHARSET[v + 1] >> ELSE <<>>

\* parts[lo..hi].join('')
RECURSIVE Join(_, _, _)
Join(parts, lo, hi) ==
  IF lo > hi THEN <<>>
  ELSE IF lo = hi THEN parts[lo]
  ELSE Join(parts, lo, (lo + hi) \div 2) \o Join(parts, ((lo + hi) \div 2) + 1, hi)

\* [...data, ...checksum].map((v) => BECH32_CHARSET[v]).join('')
EncodeWords(words) == Join([i \in 1..Len(words) |-> CharsetAt(words[i])], 1, Len(words))

bech32Encode(hrp, data) ==
  hrp \o << "1" >> \o EncodeWords(data \o bech32CreateChecksum(hrp, data))

\* ------------------------------------------------------------------------
\* convertBits  (AddressDerivationLab.svelte)
\* ------------------------------------------------------------------------

\* the number of a 32-bit word below 2^31
Number32(x) == x[1] * Limb + x[2]

\* maxv = (1 << toBits) - 1
Maxv(toBits) == Add32(Shl32(<<0, 1>>, toBits), << Limb - 1, Limb - 1 >>)

\* return null / return out
Null == [null |-> TRUE, out |-> <<>>]

Out(out) == [null |-> FALSE, out |-> out]

\* while (bits >= toBits) { bits -= toBits; out.push((acc >>> bits) & maxv) }
RECURSIVE Drain(_, _)
Drain(st, toBits) ==
  IF st.bits >= toBits
  THEN Drain([st EXCEPT
                !.bits = st.bits - toBits,
                !.out = Append(st.out,
                          Number32(And32(Shr32(st.acc, st.bits - toBits), Maxv(toBits))))],
             toBits)
  ELSE st

\* the body of for (const value of data); st.null records `return null`
ConvertValue(st, value, fromBits, toBits) ==
  IF st.null THEN st
  ELSE IF value < 0 \/ Shr32(ToU32(value), fromBits) # <<0, 0>>
    THEN [st EXCEPT !.null = TRUE]
  ELSE Drain([st EXCEPT
                !.acc = Or32(Shl32(st.acc, fromBits), ToU32(value)),
                !.bits = st.bits + fromBits],
             toBits)

\* for (const value of data[lo..hi]), the range run as two halves, one after
\* the other; the test on st.bits makes the state a value first
RECURSIVE ConvertRange(_, _, _, _, _, _)
ConvertRange(data, lo, hi, st, fromBits, toBits) ==
  IF st.bits < 0 THEN st
  ELSE IF lo > hi THEN st
  ELSE IF lo = hi THEN ConvertValue(st, data[lo], fromBits, toBits)
  ELSE ConvertRange(data, ((lo + hi) \div 2) + 1, hi,
                    ConvertRange(data, lo, (lo + hi) \div 2, st, fromBits, toBits),
                    fromBits, toBits)

\* (acc << (toBits - bits)) & maxv
LastGroup(st, toBits) == And32(Shl32(st.acc, toBits - st.bits), Maxv(toBits))

\* the lines after the loop
AfterLoop(st, fromBits, toBits, pad) ==
  IF st.null THEN Null
  ELSE IF pad
    THEN IF st.bits > 0
           THEN Out(Append(st.out, Number32(LastGroup(st, toBits))))
           ELSE Out(st.out)
  ELSE IF st.bits >= fromBits \/ LastGroup(st, toBits) # <<0, 0>> THEN Null
  ELSE Out(st.out)

\* convertBits that never pushes the padded final group
convertBits_NoFinalGroup(data, fromBits, toBits, pad) ==
  AfterLoop(ConvertRange(data, 1, Len(data),
                         [null |-> FALSE, acc |-> <<0, 0>>, bits |-> 0, out |-> <<>>],
                         fromBits, toBits),
            fromBits, toBits, FALSE)

convertBits(data, fromBits, toBits, pad) ==
  AfterLoop(ConvertRange(data, 1, Len(data),
                         [null |-> FALSE, acc |-> <<0, 0>>, bits |-> 0, out |-> <<>>],
                         fromBits, toBits),
            fromBits, toBits, pad)

\* ------------------------------------------------------------------------
\* Specification of the Bech32 calls
\* ------------------------------------------------------------------------

MaxWords == 3

MaxConvLen == 5

\* 'a', 'bc', 'tb', 'cosmos', 'BC', 'a1', '?~'
Hrps ==
  { << "a" >>, << "b", "c" >>, << "t", "b" >>, << "c", "o", "s", "m", "o", "s" >>,
    << "B", "C" >>, << "a", "1" >>, << "?", "~" >> }

Words5 == {0, 1, 15, 31}

\* the witness program 751e76e8199196d454941c45d1b3a323f1433bd6 of the
\* address bc1qw508d6qejxtdg4y5r3zarvary0c5xw7kv8f3t4
SampleProgram ==
  << 117, 30, 118, 232, 25, 145, 150, 212, 84, 148,
     28, 69, 209, 179, 163, 35, 241, 67, 59, 214 >>

SampleProgramWords ==
  << 14, 20, 15, 7, 13, 26, 0, 25, 18, 6, 11, 13, 8, 21, 4, 20,
     3, 17, 2, 29, 3, 12, 29, 3, 4, 15, 24, 20, 6, 14, 30, 22 >>

SampleSegwitAddress ==
  << "b", "c", "1", "q", "w", "5", "0", "8", "d", "6", "q", "e", "j", "x",
     "t", "d", "g", "4", "y", "5", "r", "3", "z", "a", "r", "v", "a", "r",
     "y", "0", "c", "5", "x", "w", "7", "k", "v", "8", "f", "3", "t", "4" >>

Bech32Inputs ==
  [hrp : Hrps, data : UNION { [1..n -> Words5] : n \in 0..MaxWords }]
    \cup { [hrp |-> << "b", "c" >>, data |-> << 0 >> \o SampleProgramWords] }

Widths == {3, 5, 8}

\* 0, 10..01 and 11..10 on w bits
GroupValues(w) == {0, 2 ^ (w - 1) + 1, 2 ^ w - 2}

ConvertBitsInputs ==
  UNION { [data : UNION { [1..n -> GroupValues(w)] : n \in 0..MaxConvLen },
           fromBits : {w}, toBits : Widths, pad : BOOLEAN] : w \in Widths }
    \cup UNION { [data : { << 2 ^ w >>, << 0, 2 ^ w + 1 >>, << 2 ^ w - 1, 255, 0 >> },
                  fromBits : {w}, toBits : Widths, pad : BOOLEAN] : w \in {3, 5} }
    \cup [data : {SampleProgram}, fromBits : {8}, toBits : {5}, pad : BOOLEAN]
    \cup [data : {SampleProgramWords}, fromBits : {5}, toBits : {8}, pad : BOOLEAN]
    \cup [data : {Fill(12, 5), Fill(13, 6)}, fromBits : {3}, toBits : {5, 8}, pad : BOOLEAN]

InitBech32 ==
  /\ \/ fn \in {"bech32CreateChecksum", "bech32Encode"} /\ arg \in Bech32Inputs
     \/ fn = "convertBits" /\ arg \in ConvertBitsInputs
  /\ ret = <<>>
  /\ pc = "ready"
  /\ LabsUnmounted

CallBech32CreateChecksum ==
  /\ pc = "ready"
  /\ fn = "bech32CreateChecksum"
  /\ ret' = bech32CreateChecksum(arg.hrp, arg.data)
  /\ pc' = "done"
  /\ UNCHANGED <<fn, arg, labVars>>

CallBech32Encode ==
  /\ pc = "ready"
  /\ fn = "bech32Encode"
  /\ ret' = bech32Encode(arg.hrp, arg.data)
  /\ pc' = "done"
  /\ UNCHANGED <<fn, arg, labVars>>

CallConvertBits ==
  /\ pc = "ready"
  /\ fn = "convertBits"
  /\ ret' = convertBits(arg.data, arg.fromBits, arg.toBits, arg.pad)
  /\ pc' = "done"
  /\ UNCHANGED <<fn, arg, labVars>>

NextBech32 == CallBech32CreateChecksum \/ CallBech32Encode \/ CallConvertBits

SpecBech32 == InitBech32 /\ [][NextBech32]_vars

\* the 5-bit value a character of the data part stands for
CharsetIndex(c) == (CHOOSE i \in 1..32 : BECH32_CHARSET[i] = c) - 1

\* the position of the separator: the last '1' of the string
Separator(str) ==
  CHOOSE i \in 1..Len(str) :
    str[i] = "1" /\ \A j \in (i + 1)..Len(str) : str[j] # "1"

\* the inverse check of a bech32 string: the part before the last '1' is the
\* HRP, the part after it is at least six characters of the charset, and the
\* polymod of the expanded HRP followed by their values is 1
Bech32Verifies(str) ==
  /\ \E i \in 1..Len(str) : str[i] = "1"
  /\ LET pos  == Separator(str)
         hrp  == SubSeq(str, 1, pos - 1)
         rest == SubSeq(str, pos + 1, Len(str))
     IN  /\ Len(rest) >= 6
         /\ \A i \in 1..Len(rest) : \E k \in 1..32 : rest[i] = BECH32_CHARSET[k]
         /\ bech32Polymod(bech32HrpExpand(hrp)
                            \o [i \in 1..Len(rest) |-> CharsetIndex(rest[i])]) = 1

\* C9: the six symbols of bech32CreateChecksum are each in 0..31 and
\* bech32Polymod(bech32HrpExpand(hrp) || data || checksum) = 1; a string of
\* bech32Encode is hrp, '1' and one charset character per data word and
\* checksum symbol, and passes the inverse checksum check.
C9_ChecksumValidates ==
  /\ (pc = "done" /\ fn = "bech32CreateChecksum") =>
       /\ Len(ret) = 6
       /\ \A i \in 1..6 : ret[i] \in 0..31
       /\ bech32Polymod(bech32HrpExpand(arg.hrp) \o arg.data \o ret) = 1
  /\ (pc = "done" /\ fn = "bech32Encode") =>
       /\ Len(ret) = Len(arg.hrp) + 1 + Len(arg.data) + 6
       /\ SubSeq(ret, 1, Len(arg.hrp) + 1) = arg.hrp \o << "1" >>
       /\ \A i \in 1..Len(arg.data) :
            ret[Len(arg.hrp) + 1 + i] = BECH32_CHARSET[arg.data[i] + 1]
       /\ Bech32Verifies(ret)

C9_Witness ==
  /\ pc = "done" /\ fn = "bech32Encode"
  /\ arg.hrp = << "b", "c" >>
  /\ arg.data = << 0 >> \o SampleProgramWords
  /\ ret = SampleSegwitAddress

\* the bits of the groups of data, each w bits wide, most significant first
BitString(data, w) ==
  [k \in 1..(Len(data) * w) |->
     (data[((k - 1) \div w) + 1] \div (2 ^ (w - 1 - ((k - 1) % w)))) % 2]

\* a bit string whose length is a multiple of w, cut into w-bit numbers
Regroup(bits, w) ==
  [g \in 1..(Len(bits) \div w) |-> NumberOf(SubSeq(bits, (g - 1) * w + 1, g * w), 2)]

\* C10: on groups that fit fromBits, convertBits is the MSB-first regrouping
\* of the input bit string: with pad the final short group is filled with
\* zero bits on the right; without pad the result is null exactly when the
\* leftover bits number at least fromBits or are not all zero, and otherwise
\* the full groups; every output value is below 2^toBits.  A group that
\* does not fit fromBits gives null.
C10_ConvertBitsRegroups ==
  (pc = "done" /\ fn = "convertBits") =>
    LET bits     == BitString(arg.data, arg.fromBits)
        n        == Len(arg.data) * arg.fromBits
        leftover == n % arg.toBits
        fill     == (arg.toBits - leftover) % arg.toBits
    IN  IF \E i \in 1..Len(arg.data) : arg.data[i] >= 2 ^ arg.fromBits
        THEN ret = Null
        ELSE /\ \A i \in 1..Len(ret.out) : ret.out[i] \in 0..(2 ^ arg.toBits - 1)
             /\ arg.pad =>
                  /\ ~ret.null
                  /\ ret.out = Regroup(bits \o Fill(fill, 0), arg.toBits)
             /\ ~arg.pad =>
                  /\ ret.null <=>
                       \/ leftover >= arg.fromBits
                       \/ \E k \in (n - leftover + 1)..n : bits[k] = 1
                  /\ ~ret.null =>
                       ret.out = Regroup(SubSeq(bits, 1, n - leftover), arg.toBits)

\* the 20-byte program repacked to 32 words: the accumulator has taken 160 bits
C10_Witness ==
  /\ pc = "done" /\ fn = "convertBits"
  /\ arg = [data |-> SampleProgram, fromBits |-> 8, toBits |-> 5, pad |-> TRUE]
  /\ ret = Out(SampleProgramWords)

\* ------------------------------------------------------------------------
\* Bech32 address encoders  (AddressDerivationLab.svelte)
\* ------------------------------------------------------------------------

encodeBech32Address(hrp, data) ==
  LET words == convertBits(data, 8, 5, TRUE)
  IN  IF words.null THEN Throw("Failed to convert data for bech32.")
      ELSE Return(bech32Encode(hrp, words.out))

encodeSegwitAddress(hrp, version, program) ==
  LET words == convertBits(program, 8, 5, TRUE)
  IN  IF words.null THEN Throw("Failed to convert witness program for bech32.")
      ELSE Return(bech32Encode(hrp, << version >> \o words.out))

\* ------------------------------------------------------------------------
\* Specification of the address encoder calls, bad inputs included
\* ------------------------------------------------------------------------

\* 'bc', 'tb', 'cosmos', 'Bc' (mixed case), 'b' TAB (not printable)
EncoderHrps ==
  { << "b", "c" >>, << "t", "b" >>, << "c", "o", "s", "m", "o", "s" >>,
    << "B", "c" >>, << "b", "\t" >> }

WitnessVersions == {0, 1, 16, 17, 31, 32, 255}

Programs == { SampleProgram, Fill(20, 0), << 255, 1 >> }

EncoderWords == {0, 31, 32, 255}

EncoderInputs(name) ==
  IF name = "encodeSegwitAddress"
    THEN [hrp : EncoderHrps, version : WitnessVersions, program : Programs]
  ELSE IF name = "encodeBech32Address"
    THEN [hrp : EncoderHrps, data : Programs]
  ELSE [hrp : EncoderHrps, data : UNION { [1..n -> EncoderWords] : n \in 0..2 }]

InitEncoders ==
  /\ fn \in {"encodeSegwitAddress", "encodeBech32Address", "bech32Encode"}
  /\ arg \in EncoderInputs(fn)
  /\ ret = <<>>
  /\ pc = "ready"
  /\ LabsUnmounted

CallEncodeSegwitAddress ==
  /\ pc = "ready"
  /\ fn = "encodeSegwitAddress"
  /\ ret' = encodeSegwitAddress(arg.hrp, arg.version, arg.program)
  /\ pc' = "done"
  /\ UNCHANGED <<fn, arg, labVars>>

CallEncodeBech32Address ==
  /\ pc = "ready"
  /\ fn = "encodeBech32Address"
  /\ ret' = encodeBech32Address(arg.hrp, arg.data)
  /\ pc' = "done"
  /\ UNCHANGED <<fn, arg, labVars>>

\* try { bech32Encode(hrp, data) } catch: bech32Encode has no throw statement
TryBech32Encode ==
  /\ pc = "ready"
  /\ fn = "bech32Encode"
  /\ ret' = Return(bech32Encode(arg.hrp, arg.data))
  /\ pc' = "done"
  /\ UNCHANGED <<fn, arg, labVars>>

NextEncoders == CallEncodeSegwitAddress \/ CallEncodeBech32Address \/ TryBech32Encode

SpecEncoders == InitEncoders /\ [][NextEncoders]_vars

\* an HRP with a character outside codes 33..126, or with both upper-case
\* and lower-case letters
BadHrp(hrp) ==
  \/ \E i \in 1..Len(hrp) : charCodeAt(hrp[i]) \notin 33..126
  \/ /\ \E i \in 1..Len(hrp) : charCodeAt(hrp[i]) \in 65..90
     /\ \E i \in 1..Len(hrp) : charCodeAt(hrp[i]) \in 97..122

\* the inputs the encoder has to reject
BadEncoderInput ==
  \/ BadHrp(arg.hrp)
  \/ fn = "encodeSegwitAddress" /\ arg.version \notin 0..16
  \/ fn = "bech32Encode" /\ \E i \in 1..Len(arg.data) : arg.data[i] > 31

\* C11: a call of encodeSegwitAddress with a witness version outside 0..16,
\* of bech32Encode with a data word above 31, or of either with an HRP that
\* has non-printable or mixed-case characters fails with an error and
\* returns no address string.
C11_BadInputRejected ==
  (pc = "done" /\ BadEncoderInput) => (ret.error # "" /\ ret.value = <<>>)

\* ------------------------------------------------------------------------
\* Hex strings and providers of the address lab  (AddressDerivationLab.svelte)
\* ------------------------------------------------------------------------

\* Array.from(bytes).map((byte) => byte.toString(16).padStart(2, '0')).join('')
toHex(bytes) ==
  LET array == bytes \o <<>>
  IN  [i \in 1..(2 * Len(array)) |->
         IF i % 2 = 1 THEN HexLower[(array[(i + 1) \div 2] \div 16) + 1]
         ELSE HexLower[(array[i \div 2] % 16) + 1]] \o <<>>

\* fromHex of AddressDerivationLab.svelte: as the one of LegacyTxLab.svelte,
\* with its own messages
fromHexAdl(value) ==
  LET normalized == strip0x(value)
  IN  IF normalized = <<>> THEN Return(<<>>)
      ELSE IF Len(normalized) % 2 # 0 THEN Throw("Hex length must be even.")
      ELSE IF ~isHex(normalized) THEN Throw("Hex contains invalid characters.")
      ELSE Return([i \in 1..(Len(normalized) \div 2) |->
                     16 * HexVal(normalized[2 * i - 1]) + HexVal(normalized[2 * i])])

\* toPrivateKeyBytes() on the component's privateKey
toPrivateKeyBytesAdl(privateKey) ==
  LET bytes == fromHexAdl(privateKey)
  IN  IF bytes.error # "" THEN bytes
      ELSE IF Len(bytes.value) # 32
        THEN Throw("Private key must be 32 bytes (64 hex chars).")
      ELSE bytes

\* a 32-byte digest standing for a provider's, mixed from the input with the
\* multipliers a and b
Digest32(input, a, b) ==
  LET array == input \o <<>>
      sum   == WeightedSum(array, 1, Len(array))
  IN  [i \in 1..32 |-> (sum * (2 * i + a) + b * i) % 256] \o <<>>

\* the order n of the secp256k1 group, big-endian
CurveOrder ==
  << 255, 255, 255, 255, 255, 255, 255, 255, 255, 255, 255, 255, 255, 255, 255, 254,
     186, 174, 220, 230, 175, 72, 160, 59, 191, 210, 94, 140, 208, 54, 65, 65 >>

\* a < b for big-endian byte strings of one length
BytesLess(a, b) ==
  \E i \in 1..Len(a) : a[i] < b[i] /\ \A j \in 1..(i - 1) : a[j] = b[j]

\* the secret keys @noble/secp256k1 accepts: 1 <= key < n
ValidSecret(pk) ==
  /\ Len(pk) = 32
  /\ \E i \in 1..32 : pk[i] # 0
  /\ BytesLess(pk, CurveOrder)

\* getPublicKey(pk, isCompressed) of @noble/secp256k1: a deterministic point
\* (x, y) of the key, 04 || x || y or (02 | 03) || x by the parity of y; it
\* throws for a key outside 1..n-1.  The coordinates stand for the curve
\* multiplication.
getPublicKey(pk, isCompressed) ==
  IF ~ValidSecret(pk) THEN Throw("invalid private key")
  ELSE LET x == Digest32(pk, 3, 11)
           y == Digest32(pk, 5, 13)
       IN  IF isCompressed THEN Return(<< 2 + (y[32] % 2) >> \o x)
           ELSE Return(<< 4 >> \o x \o y)

\* sha3.keccak256(message) of js-sha3 on bytes: the digest as a lower-case
\* hex string.  The digest stands for Keccak-256.
keccak256(message) == toHex(Digest32(message, 7, 17))

\* a string as the bytes js-sha3 hashes (ASCII strings only)
Utf8(str) == [i \in 1..Len(str) |-> charCodeAt(str[i])] \o <<>>

\* char.toLowerCase() / char.toUpperCase() of an ASCII character
toLowerCase(c) ==
  IF charCodeAt(c) \in 65..90 THEN AsciiFrom97[charCodeAt(c) + 32 - 96] ELSE c

toUpperCase(c) ==
  IF charCodeAt(c) \in 97..122 THEN AsciiFrom32[charCodeAt(c) - 32 - 31] ELSE c

toEip55Checksum(addressHex) ==
  LET stripped == strip0x(addressHex)
      lower    == [i \in 1..Len(stripped) |-> toLowerCase(stripped[i])] \o <<>>
  IN  IF Len(lower) # 40 THEN Throw("Address must be 20 bytes (40 hex chars).")
      ELSE LET hash == keccak256(Utf8(lower))
           IN  Return(<< "0", "x" >> \o
                 [idx \in 1..40 |->
                    IF lower[idx] \notin {"a", "b", "c", "d", "e", "f"} THEN lower[idx]
                    ELSE IF HexVal(hash[idx]) >= 8 THEN toUpperCase(lower[idx])
                    ELSE lower[idx]])

\* The functions the address lab calls on its hashes depend on their input
\* alone.  Their values on the byte strings the lab can pass them are
\* computed once, when the lab is mounted, and kept in lib; a handler looks
\* its value up there.  The byte strings are the compressed public keys of
\* the secrets in use and the redeem scripts of their hashes.
LabSecrets == { Fill(32, 17), Fill(32, 171) }

LabPublicKeys == { getPublicKey(secret, TRUE).value : secret \in LabSecrets }

\* the redeem scripts 0x00 0x14 <hash> of the hashes in a table
RedeemScripts(known) == { << 0, 20 >> \o known[input] : input \in DOMAIN known }

\* a table of hash160, extended `rounds` times by the hashes of the public
\* keys and of the redeem scripts of the hashes it holds
RECURSIVE HashClosure(_, _)
HashClosure(known, rounds) ==
  IF rounds = 0 THEN known
  ELSE HashClosure(
         known @@ [input \in (LabPublicKeys \cup RedeemScripts(known)) \ DOMAIN known |->
                     hash160(input)],
         rounds - 1)

\* the public keys in the first round, their redeem scripts in the second
Hash160Table == HashClosure(<<>>, 2)

Hashes(table) == { table[input] : input \in DOMAIN table }

Base58CheckTable(hashes) ==
  [version \in {0, 5}, payload \in hashes |-> base58Check(version, payload)] @@ <<>>

Bech32AddressTable(hashes) ==
  [hrp \in { << "b", "c" >>, << "c", "o", "s", "m", "o", "s" >> }, hash \in hashes |->
     IF hrp = << "b", "c" >> THEN encodeSegwitAddress(hrp, 0, hash)
     ELSE encodeBech32Address(hrp, hash)] @@ <<>>

\* await hash160(input)
Hash160(input) == lib.hash160[input]

\* await base58Check(version, payload)
Base58Check(version, payload) == lib.base58Check[version, payload]

\* encodeSegwitAddress('bc', 0, program)
EncodeSegwitAddress(hrp, version, program) == lib.bech32[hrp, program]

\* encodeBech32Address('cosmos', data)
EncodeBech32Address(hrp, data) == lib.bech32[hrp, data]

\* the tables over the hashes of one table of hash160
LibOf(table) ==
  [hash160 |-> table, base58Check |-> Base58CheckTable(Hashes(table)),
   bech32 |-> Bech32AddressTable(Hashes(table))]

\* the tables as computed at mount
LibTables == LibOf(Hash160Table)

\* ------------------------------------------------------------------------
\* State and synchronous handlers of the address lab
\* ------------------------------------------------------------------------

Chains == {"ethereum", "bitcoin", "cosmos"}

\* the cached derived values, by chain
EthCaches == {"ethPublicUncompressed", "ethPublicNoPrefix", "ethPubkeyKeccak",
              "ethAddress", "ethChecksumAddress"}

CosmosCaches == {"cosmosPublicCompressed", "cosmosPublicUncompressed",
                 "cosmosPubkeyHash160", "cosmosAddress"}

BtcCaches == {"btcPublicCompressed", "btcPublicUncompressed", "btcPubkeyHash160",
              "btcP2pkh", "btcP2shP2wpkh", "btcP2wpkh"}

Caches == EthCaches \cup CosmosCaches \cup BtcCaches

\* the let declarations of the component
AdlInitial ==
  [chain |-> "ethereum", privateKey |-> <<>>, error |-> "", loading |-> FALSE,
   ethPublicUncompressed |-> <<>>, ethPublicNoPrefix |-> <<>>,
   ethPubkeyKeccak |-> <<>>, ethAddress |-> <<>>, ethChecksumAddress |-> <<>>,
   cosmosPublicCompressed |-> <<>>, cosmosPublicUncompressed |-> <<>>,
   cosmosPubkeyHash160 |-> <<>>, cosmosAddress |-> <<>>,
   btcPublicCompressed |-> <<>>, btcPublicUncompressed |-> <<>>,
   btcPubkeyHash160 |-> <<>>, btcP2pkh |-> <<>>, btcP2shP2wpkh |-> <<>>,
   btcP2wpkh |-> <<>>,
   lastPrivateKey |-> <<>>, lastChain |-> "ethereum"]

\* clearDerived that leaves ethAddress in place
clearDerived_KeepEthAddress(s) ==
  [k \in DOMAIN s |->
     IF k = "error" THEN ""
     ELSE IF k = "loading" THEN FALSE
     ELSE IF k \in Caches \ {"ethAddress"} THEN <<>>
     ELSE s[k]]

clearDerived(s) ==
  [k \in DOMAIN s |->
     IF k = "error" THEN ""
     ELSE IF k = "loading" THEN FALSE
     ELSE IF k \in Caches THEN <<>>
     ELSE s[k]]

\* $: if (privateKey !== lastPrivateKey || chain !== lastChain) { ... }
Reactive(s) ==
  IF s.privateKey # s.lastPrivateKey \/ s.chain # s.lastChain
  THEN clearDerived([s EXCEPT !.lastPrivateKey = s.privateKey, !.lastChain = s.chain])
  ELSE s

deriveEthPublicKey(s) ==
  LET pk  == toPrivateKeyBytesAdl(s.privateKey)
      pub == getPublicKey(pk.value, FALSE)
  IN  IF pk.error # "" THEN [s EXCEPT !.error = pk.error]
      ELSE IF pub.error # "" THEN [s EXCEPT !.error = pub.error]
      ELSE [s EXCEPT !.error = "",
                     !.ethPublicUncompressed = toHex(pub.value),
                     !.ethPublicNoPrefix = SubSeq(toHex(pub.value), 3, 130),
                     !.ethPubkeyKeccak = <<>>,
                     !.ethAddress = <<>>,
                     !.ethChecksumAddress = <<>>]

\* deriveEthHash hashing its own previous output when there is one
deriveEthHash_Rehash(s) ==
  IF s.ethPublicNoPrefix = <<>> THEN [s EXCEPT !.error = "Run Step 1 first."]
  ELSE LET bytes == fromHexAdl(IF s.ethPubkeyKeccak # <<>> THEN s.ethPubkeyKeccak
                               ELSE s.ethPublicNoPrefix)
       IN  IF bytes.error # "" THEN [s EXCEPT !.error = bytes.error]
           ELSE [s EXCEPT !.error = "",
                          !.ethPubkeyKeccak = keccak256(bytes.value),
                          !.ethAddress = <<>>,
                          !.ethChecksumAddress = <<>>]

\* deriveEthHash without its guard on ethPublicNoPrefix
deriveEthHash_NoGuard(s) ==
  LET bytes == fromHexAdl(s.ethPublicNoPrefix)
  IN  IF bytes.error # "" THEN [s EXCEPT !.error = bytes.error]
      ELSE [s EXCEPT !.error = "",
                     !.ethPubkeyKeccak = keccak256(bytes.value),
                     !.ethAddress = <<>>,
                     !.ethChecksumAddress = <<>>]

deriveEthHash(s) ==
  IF s.ethPublicNoPrefix = <<>> THEN [s EXCEPT !.error = "Run Step 1 first."]
  ELSE LET bytes == fromHexAdl(s.ethPublicNoPrefix)
       IN  IF bytes.error # "" THEN [s EXCEPT !.error = bytes.error]
           ELSE [s EXCEPT !.error = "",
                          !.ethPubkeyKeccak = keccak256(bytes.value),
                          !.ethAddress = <<>>,
                          !.ethChecksumAddress = <<>>]

\* ethPubkeyKeccak.slice(-40)
Last40(str) == SubSeq(str, IF Len(str) > 40 THEN Len(str) - 39 ELSE 1, Len(str))

deriveEthAddress(s) ==
  IF s.ethPubkeyKeccak = <<>> THEN [s EXCEPT !.error = "Run Step 2 first."]
  ELSE [s EXCEPT !.error = "",
                 !.ethAddress = << "0", "x" >> \o Last40(s.ethPubkeyKeccak),
                 !.ethChecksumAddress = <<>>]

deriveEthChecksum(s) ==
  IF s.ethAddress = <<>> THEN [s EXCEPT !.error = "Run Step 3 first."]
  ELSE LET sum == toEip55Checksum(s.ethAddress)
       IN  IF sum.error # "" THEN [s EXCEPT !.error = sum.error]
           ELSE [s EXCEPT !.error = "", !.ethChecksumAddress = sum.value]

deriveCosmosPublicKey(s) ==
  LET pk  == toPrivateKeyBytesAdl(s.privateKey)
      pub == getPublicKey(pk.value, TRUE)
  IN  IF pk.error # "" THEN [s EXCEPT !.error = pk.error]
      ELSE IF pub.error # "" THEN [s EXCEPT !.error = pub.error]
      ELSE [s EXCEPT !.error = "",
                     !.cosmosPublicCompressed = toHex(pub.value),
                     !.cosmosPublicUncompressed = toHex(getPublicKey(pk.value, FALSE).value),
                     !.cosmosPubkeyHash160 = <<>>,
                     !.cosmosAddress = <<>>]

deriveBtcPublicKey(s) ==
  LET pk  == toPrivateKeyBytesAdl(s.privateKey)
      pub == getPublicKey(pk.value, TRUE)
  IN  IF pk.error # "" THEN [s EXCEPT !.error = pk.error]
      ELSE IF pub.error # "" THEN [s EXCEPT !.error = pub.error]
      ELSE [s EXCEPT !.error = "",
                     !.btcPublicCompressed = toHex(pub.value),
                     !.btcPublicUncompressed = toHex(getPublicKey(pk.value, FALSE).value),
                     !.btcPubkeyHash160 = <<>>,
                     !.btcP2pkh = <<>>,
                     !.btcP2shP2wpkh = <<>>,
                     !.btcP2wpkh = <<>>]

deriveCosmosAddress(s) ==
  IF s.cosmosPubkeyHash160 = <<>> THEN [s EXCEPT !.error = "Run Step 2 first."]
  ELSE LET bytes   == fromHexAdl(s.cosmosPubkeyHash160)
           address == EncodeBech32Address(<< "c", "o", "s", "m", "o", "s" >>, bytes.value)
       IN  IF bytes.error # "" THEN [s EXCEPT !.error = bytes.error]
           ELSE IF address.error # "" THEN [s EXCEPT !.error = address.error]
           ELSE [s EXCEPT !.error = "", !.cosmosAddress = address.value]

\* the provider calls a synchronous handler makes when run in state s
ProviderCalls(name, s) ==
  LET pk == toPrivateKeyBytesAdl(s.privateKey)
  IN  CASE name = "deriveEthPublicKey" ->
             IF pk.error # "" THEN <<>> ELSE << "getPublicKey" >>
        [] name \in {"deriveBtcPublicKey", "deriveCosmosPublicKey"} ->
             IF pk.error # "" THEN <<>>
             ELSE IF ~ValidSecret(pk.value) THEN << "getPublicKey" >>
             ELSE << "getPublicKey", "getPublicKey" >>
        [] name = "deriveEthHash" ->
             IF s.ethPublicNoPrefix = <<>> \/ fromHexAdl(s.ethPublicNoPrefix).error # ""
             THEN <<>> ELSE << "keccak256" >>
        [] name = "deriveEthChecksum" ->
             IF s.ethAddress = <<>> \/ Len(strip0x(s.ethAddress)) # 40
             THEN <<>> ELSE << "keccak256" >>
        [] OTHER -> <<>>

\* ------------------------------------------------------------------------
\* Async handlers of the address lab
\* ------------------------------------------------------------------------
\* An async handler runs up to an await of subtle.digest and is suspended
\* there as a task; it resumes when the digest is delivered.  What a task
\* does between two digests without touching the component is run with the
\* later of the two: deriveBtcAddressTypes is suspended at "p2pkh" (the
\* digest of hash160(redeemScript) and the two of base58Check(0x00, ..)) and
\* at "p2sh" (the two of base58Check(0x05, ..)).

\* the outcome of running a handler: the component, the task it is
\* suspended as (none or one), and the provider calls it made
Finished(s, made) == [adl |-> s, task |-> <<>>, calls |-> made]

Suspended(s, t, made) == [adl |-> s, task |-> << t >>, calls |-> made]

Task(name, at, input, pubKeyHash, redeemHash, fromRunAll) ==
  [fn |-> name, at |-> at, input |-> input, pubKeyHash |-> pubKeyHash,
   redeemHash |-> redeemHash, runAll |-> fromRunAll]

\* deriveBtcHash160 / deriveCosmosHash160 up to the await of hash160
HashStep(s, avail, fromRunAll, name, source) ==
  IF s[source] = <<>> THEN Finished([s EXCEPT !.error = "Run Step 1 first."], <<>>)
  ELSE LET bytes == fromHexAdl(s[source])
       IN  IF bytes.error # ""
             THEN Finished([s EXCEPT !.error = bytes.error, !.loading = FALSE], <<>>)
           ELSE IF ~avail
             THEN Finished([s EXCEPT !.error = "Web Crypto API is not available.",
                                     !.loading = FALSE], <<>>)
           ELSE Suspended([s EXCEPT !.error = "", !.loading = TRUE],
                          Task(name, "hash160", bytes.value, <<>>, <<>>, fromRunAll),
                          << "digest" >>)

deriveBtcHash160(s, avail, fromRunAll) ==
  HashStep(s, avail, fromRunAll, "deriveBtcHash160", "btcPublicCompressed")

deriveCosmosHash160(s, avail, fromRunAll) ==
  HashStep(s, avail, fromRunAll, "deriveCosmosHash160", "cosmosPublicCompressed")

\* deriveBtcAddressTypes up to the await of hash160(redeemScript)
deriveBtcAddressTypes(s, avail, fromRunAll) ==
  IF s.btcPubkeyHash160 = <<>> THEN Finished([s EXCEPT !.error = "Run Step 2 first."], <<>>)
  ELSE LET pubKeyHash == fromHexAdl(s.btcPubkeyHash160)
           redeemScript == concatBytes(<< << 0, 20 >>, pubKeyHash.value >>)
       IN  IF pubKeyHash.error # ""
             THEN Finished([s EXCEPT !.error = pubKeyHash.error, !.loading = FALSE], <<>>)
           ELSE IF ~avail
             THEN Finished([s EXCEPT !.error = "Web Crypto API is not available.",
                                     !.loading = FALSE], <<>>)
           ELSE Suspended([s EXCEPT !.error = "", !.loading = TRUE],
                          Task("deriveBtcAddressTypes", "p2pkh", redeemScript,
                               pubKeyHash.value, <<>>, fromRunAll),
                          << "digest" >>)

\* the rest of deriveBtcHash160 after the await: try body and finally
ResumeBtcHash160(s, t) ==
  [s EXCEPT !.btcPubkeyHash160 = toHex(Hash160(t.input)),
            !.btcP2pkh = <<>>,
            !.btcP2shP2wpkh = <<>>,
            !.btcP2wpkh = <<>>,
            !.loading = FALSE]

ResumeCosmosHash160(s, t) ==
  [s EXCEPT !.cosmosPubkeyHash160 = toHex(Hash160(t.input)),
            !.cosmosAddress = <<>>,
            !.loading = FALSE]

\* deriveBtcAddressTypes from the await of hash160(redeemScript) to the
\* assignment of btcP2pkh and the next await
ResumeBtcP2pkh(s, t) ==
  Suspended([s EXCEPT !.btcP2pkh = Base58Check(0, t.pubKeyHash)],
            [t EXCEPT !.at = "p2sh", !.redeemHash = Hash160(t.input)],
            << "digest", "digest", "digest" >>)

\* deriveBtcAddressTypes from the await of base58Check(0x05, redeemHash) on
ResumeBtcP2sh(s, t) ==
  LET segwit == EncodeSegwitAddress(<< "b", "c" >>, 0, t.pubKeyHash)
      st1    == [s EXCEPT !.btcP2shP2wpkh = Base58Check(5, t.redeemHash)]
  IN  IF segwit.error # ""
      THEN [st1 EXCEPT !.error = segwit.error, !.loading = FALSE]
      ELSE [st1 EXCEPT !.btcP2wpkh = segwit.value, !.loading = FALSE]

\* runAll after `await deriveBtcHash160()` / `await deriveCosmosHash160()`
\* has returned with the component in state s
AfterHashStep(name, s, avail) ==
  IF s.error # "" THEN Finished(s, <<>>)
  ELSE IF name = "deriveBtcHash160" THEN deriveBtcAddressTypes(s, avail, TRUE)
  ELSE IF name = "deriveCosmosHash160" THEN Finished(deriveCosmosAddress(s), <<>>)
  ELSE Finished(s, <<>>)

\* the outcome `rest` of what follows the provider calls `made`
WithCalls(rest, made) == [rest EXCEPT !.calls = made \o rest.calls]

\* a hash step of runAll and, when it returns without an await, the rest
ThenRest(r, name, avail) ==
  IF r.task # <<>> THEN r
  ELSE WithCalls(AfterHashStep(name, r.adl, avail), r.calls)

\* the handler of task t has run to `own`: the runAll that awaits it goes on
AwaitedBy(own, t, avail) ==
  IF t.runAll THEN ThenRest(own, t.fn, avail) ELSE own

\* a task resumes: its handler runs to its end or to its next await, and so
\* does the runAll that awaits it
Resumed(s, t, avail) ==
  AwaitedBy(CASE t.fn = "deriveBtcHash160" -> Finished(ResumeBtcHash160(s, t), <<>>)
              [] t.fn = "deriveCosmosHash160" -> Finished(ResumeCosmosHash160(s, t), <<>>)
              [] t.fn = "deriveBtcAddressTypes" /\ t.at = "p2pkh" -> ResumeBtcP2pkh(s, t)
              [] OTHER -> Finished(ResumeBtcP2sh(s, t), <<>>),
            t, avail)

\* runAll on ethereum from `if (error) return` after deriveEthAddress(); st
\* is the component as the step left it, made the provider calls so far
EthAfterAddress(st, made) ==
  IF st.error # "" THEN Finished(st, made)
  ELSE Finished(deriveEthChecksum(st), made \o ProviderCalls("deriveEthChecksum", st))

\* ... from `if (error) return` after deriveEthHash()
EthAfterHash(st, made) ==
  IF st.error # "" THEN Finished(st, made)
  ELSE EthAfterAddress(deriveEthAddress(st), made)

\* ... from `if (error) return` after deriveEthPublicKey()
EthAfterPublicKey(st, made) ==
  IF st.error # "" THEN Finished(st, made)
  ELSE EthAfterHash(deriveEthHash(st), made \o ProviderCalls("deriveEthHash", st))

\* runAll on bitcoin and cosmos from `if (error) return` after the public
\* key step: the hash step `name` with outcome `hashed`, and the rest
AfterPublicKey(st, made, hashed, name, avail) ==
  IF st.error # "" THEN Finished(st, made)
  ELSE ThenRest(WithCalls(hashed, made), name, avail)

BtcAfterPublicKey(st, made, avail) ==
  AfterPublicKey(st, made, deriveBtcHash160(st, avail, TRUE), "deriveBtcHash160", avail)

CosmosAfterPublicKey(st, made, avail) ==
  AfterPublicKey(st, made, deriveCosmosHash160(st, avail, TRUE), "deriveCosmosHash160",
                 avail)

\* runAll up to its first await or its end
runAll(s, avail) ==
  IF s.chain = "ethereum"
    THEN EthAfterPublicKey(deriveEthPublicKey(s), ProviderCalls("deriveEthPublicKey", s))
  ELSE IF s.chain = "bitcoin"
    THEN BtcAfterPublicKey(deriveBtcPublicKey(s), ProviderCalls("deriveBtcPublicKey", s),
                           avail)
  ELSE CosmosAfterPublicKey(deriveCosmosPublicKey(s),
                            ProviderCalls("deriveCosmosPublicKey", s), avail)

\* ------------------------------------------------------------------------
\* Specification of the address lab
\* ------------------------------------------------------------------------
\* The handlers are invoked as functions: a step of the selected chain can
\* run in any state, whether its button is enabled or not.

MaxTasks == 1

\* '11' x 32, as utils.randomSecretKey() and toHex print it
KeyA == [i \in 1..64 |-> "1"]

\* '00' x 32: 32 bytes that are no secret key
ZeroKey == [i \in 1..64 |-> "0"]

\* the values typed into the private key field
TypedKeys == { <<>>, KeyA, ZeroKey }

\* the keys utils.randomSecretKey() may return
RandomSecrets == { Fill(32, 17), Fill(32, 171) }

InitAddressLab ==
  /\ adl = AdlInitial
  /\ tasks = <<>>
  /\ subtle \in BOOLEAN
  /\ calls = <<>>
  /\ fn = "mount"
  /\ arg = <<>>
  /\ ret = <<>>
  /\ pc = "mounted"
  /\ ltx = <<>>
  /\ lib = LibTables

\* what every handler of the address lab leaves alone
LabFrame == UNCHANGED <<ret, pc, ltx, subtle, lib>>

\* bind:value={privateKey}: an input event and the reactive statement
SetPrivateKey ==
  /\ pc = "mounted" /\ adl # <<>>
  /\ \E value \in TypedKeys :
       /\ value # adl.privateKey
       /\ adl' = Reactive([adl EXCEPT !.privateKey = value])
  /\ fn' = "privateKey"
  /\ arg' = <<>>
  /\ calls' = <<>>
  /\ UNCHANGED tasks
  /\ LabFrame

\* bind:value={chain}
SetChain ==
  /\ pc = "mounted" /\ adl # <<>>
  /\ \E value \in Chains :
       /\ value # adl.chain
       /\ adl' = Reactive([adl EXCEPT !.chain = value])
  /\ fn' = "chain"
  /\ arg' = <<>>
  /\ calls' = <<>>
  /\ UNCHANGED tasks
  /\ LabFrame

GeneratePrivateKey ==
  /\ pc = "mounted" /\ adl # <<>>
  /\ \E secret \in RandomSecrets :
       adl' = Reactive(clearDerived([adl EXCEPT !.privateKey = toHex(secret)]))
  /\ fn' = "generatePrivateKey"
  /\ arg' = <<>>
  /\ calls' = << "randomSecretKey" >>
  /\ UNCHANGED tasks
  /\ LabFrame

\* a synchronous step handler `name` of chain `of`; `after` is the state its function leaves
SyncStep(name, of, after) ==
  /\ pc = "mounted" /\ adl # <<>>
  /\ adl.chain = of
  /\ adl' = after
  /\ calls' = ProviderCalls(name, adl)
  /\ fn' = name
  /\ arg' = <<>>
  /\ UNCHANGED tasks
  /\ LabFrame

DeriveEthPublicKey == SyncStep("deriveEthPublicKey", "ethereum", deriveEthPublicKey(adl))

DeriveEthHash == SyncStep("deriveEthHash", "ethereum", deriveEthHash(adl))

DeriveEthAddress == SyncStep("deriveEthAddress", "ethereum", deriveEthAddress(adl))

DeriveEthChecksum == SyncStep("deriveEthChecksum", "ethereum", deriveEthChecksum(adl))

DeriveBtcPublicKey == SyncStep("deriveBtcPublicKey", "bitcoin", deriveBtcPublicKey(adl))

DeriveCosmosPublicKey == SyncStep("deriveCosmosPublicKey", "cosmos", deriveCosmosPublicKey(adl))

DeriveCosmosAddress == SyncStep("deriveCosmosAddress", "cosmos", deriveCosmosAddress(adl))

\* the component, the tasks and the calls after a handler with outcome r
Outcome(r, rest) ==
  /\ Len(rest) + Len(r.task) <= MaxTasks
  /\ adl' = r.adl
  /\ tasks' = rest \o r.task
  /\ calls' = r.calls

\* an async handler `name` of chain `of`, run to its first await or its end
AsyncStep(name, of, r) ==
  /\ pc = "mounted" /\ adl # <<>>
  /\ adl.chain = of
  /\ Outcome(r, tasks)
  /\ fn' = name
  /\ arg' = <<>>
  /\ LabFrame

DeriveBtcHash160 ==
  AsyncStep("deriveBtcHash160", "bitcoin", deriveBtcHash160(adl, subtle, FALSE))

DeriveBtcAddressTypes ==
  AsyncStep("deriveBtcAddressTypes", "bitcoin", deriveBtcAddressTypes(adl, subtle, FALSE))

DeriveCosmosHash160 ==
  AsyncStep("deriveCosmosHash160", "cosmos", deriveCosmosHash160(adl, subtle, FALSE))

RunAll ==
  /\ pc = "mounted" /\ adl # <<>>
  /\ Outcome(runAll(adl, subtle), tasks)
  /\ fn' = "runAll"
  /\ arg' = <<>>
  /\ LabFrame

\* subtle.digest delivers to one of the suspended tasks
Resume ==
  /\ pc = "mounted" /\ adl # <<>>
  /\ \E i \in 1..Len(tasks) :
       /\ Outcome(Resumed(adl, tasks[i], subtle),
                  SubSeq(tasks, 1, i - 1) \o SubSeq(tasks, i + 1, Len(tasks)))
  /\ fn' = "digest"
  /\ arg' = <<>>
  /\ LabFrame

NextAddressLab ==
  \/ SetPrivateKey \/ SetChain \/ GeneratePrivateKey
  \/ DeriveEthPublicKey \/ DeriveEthHash \/ DeriveEthAddress \/ DeriveEthChecksum
  \/ DeriveBtcPublicKey \/ DeriveBtcHash160 \/ DeriveBtcAddressTypes
  \/ DeriveCosmosPublicKey \/ DeriveCosmosHash160 \/ DeriveCosmosAddress
  \/ RunAll \/ Resume

SpecAddressLab == InitAddressLab /\ [][NextAddressLab]_vars

\* the steps that need the output of the step before them: the handler, the
\* cache it reads and the number of the step that fills it
GuardedSteps ==
  { << "deriveEthHash", "ethPublicNoPrefix", "Run Step 1 first." >>,
    << "deriveEthAddress", "ethPubkeyKeccak", "Run Step 2 first." >>,
    << "deriveEthChecksum", "ethAddress", "Run Step 3 first." >>,
    << "deriveBtcHash160", "btcPublicCompressed", "Run Step 1 first." >>,
    << "deriveBtcAddressTypes", "btcPubkeyHash160", "Run Step 2 first." >>,
    << "deriveCosmosHash160", "cosmosPublicCompressed", "Run Step 1 first." >>,
    << "deriveCosmosAddress", "cosmosPubkeyHash160", "Run Step 2 first." >> }

\* C12: a step handler invoked while the cache of the step before it is
\* empty sets the error 'Run Step N first.', calls no provider, starts no
\* digest, and leaves every cached derived value as it was.
C12_StepOrderEnforced ==
  [][\A g \in GuardedSteps :
       (fn' = g[1] /\ adl[g[2]] = <<>>) =>
         /\ adl'.error = g[3]
         /\ calls' = <<>>
         /\ tasks' = tasks
         /\ \A k \in Caches : adl'[k] = adl[k]]_vars

\* step 3 of Ethereum was refused after step 1 had filled its caches
C12_Witness ==
  /\ fn = "deriveEthAddress"
  /\ adl.error = "Run Step 2 first."
  /\ adl.ethPubkeyKeccak = <<>>
  /\ adl.ethPublicNoPrefix # <<>>
  /\ calls = <<>>

\* the caches a step fills and those of the later steps of its chain
StepAndLater(name) ==
  CASE name = "deriveEthPublicKey" -> EthCaches
    [] name = "deriveEthHash" -> {"ethPubkeyKeccak", "ethAddress", "ethChecksumAddress"}
    [] name = "deriveEthAddress" -> {"ethAddress", "ethChecksumAddress"}
    [] name = "deriveEthChecksum" -> {"ethChecksumAddress"}
    [] name = "deriveBtcPublicKey" -> BtcCaches
    [] name = "deriveBtcHash160" ->
         {"btcPubkeyHash160", "btcP2pkh", "btcP2shP2wpkh", "btcP2wpkh"}
    [] name = "deriveBtcAddressTypes" -> {"btcP2pkh", "btcP2shP2wpkh", "btcP2wpkh"}
    [] name = "deriveCosmosPublicKey" -> CosmosCaches
    [] name = "deriveCosmosHash160" -> {"cosmosPubkeyHash160", "cosmosAddress"}
    [] name = "deriveCosmosAddress" -> {"cosmosAddress"}
    [] OTHER -> {}

\* C13: when a derive step has ended with a non-empty error, the caches of
\* that step and of every later step of its chain are empty.
C13_FailedStepLeavesDownstreamEmpty ==
  (adl # <<>> /\ adl.error # "") =>
    \A k \in StepAndLater(fn) : adl[k] = <<>>

StepNames ==
  {"deriveEthPublicKey", "deriveEthHash", "deriveEthAddress", "deriveEthChecksum",
   "deriveBtcPublicKey", "deriveBtcHash160", "deriveBtcAddressTypes",
   "deriveCosmosPublicKey", "deriveCosmosHash160", "deriveCosmosAddress"}

\* an async handler run on with nothing else in between, each digest
\* delivered as soon as it is awaited (two awaits at most)
RunToEnd(r, avail) ==
  LET next == IF r.task = <<>> THEN r ELSE Resumed(r.adl, r.task[1], avail)
  IN  IF next.task = <<>> THEN next.adl
      ELSE Resumed(next.adl, next.task[1], avail).adl

\* one complete run of a step handler from the component state s
StepRun(name, s, avail) ==
  CASE name = "deriveEthPublicKey" -> deriveEthPublicKey(s)
    [] name = "deriveEthHash" -> deriveEthHash(s)
    [] name = "deriveEthAddress" -> deriveEthAddress(s)
    [] name = "deriveEthChecksum" -> deriveEthChecksum(s)
    [] name = "deriveBtcPublicKey" -> deriveBtcPublicKey(s)
    [] name = "deriveBtcHash160" -> RunToEnd(deriveBtcHash160(s, avail, FALSE), avail)
    [] name = "deriveBtcAddressTypes" ->
         RunToEnd(deriveBtcAddressTypes(s, avail, FALSE), avail)
    [] name = "deriveCosmosPublicKey" -> deriveCosmosPublicKey(s)
    [] name = "deriveCosmosHash160" -> RunToEnd(deriveCosmosHash160(s, avail, FALSE), avail)
    [] OTHER -> deriveCosmosAddress(s)

SameCachesAndError(a, b) ==
  /\ a.error = b.error
  /\ \A k \in Caches : a[k] = b[k]

\* C14: from every reachable state of the component, running a derive step
\* twice in succession leaves the same cached values and the same error as
\* running it once.
C14_StepIdempotent ==
  adl # <<>> =>
    \A name \in StepNames :
      LET once == StepRun(name, adl, subtle)
      IN  SameCachesAndError(StepRun(name, once, subtle), once)

\* deriveBtcAddressTypes has run to its end, and a second run changes nothing
C14_Witness ==
  /\ fn = "digest"
  /\ tasks = <<>>
  /\ adl.btcP2pkh # <<>> /\ adl.btcP2shP2wpkh # <<>> /\ adl.btcP2wpkh # <<>>
  /\ adl.error = ""
  /\ SameCachesAndError(StepRun("deriveBtcAddressTypes", adl, subtle), adl)

\* ------------------------------------------------------------------------
\* Legacy transaction lab  (LegacyTxLab.svelte)
\* ------------------------------------------------------------------------
\* A value that is null or a T is a sequence of no or one T.

null == <<>>

Some(x) == << x >>

\* new Uint8Array(sha3.keccak256.arrayBuffer(bytes)): the digest that
\* keccak256 prints
keccakBytes(message) == Digest32(message, 7, 17)

\* sign(hash, key, { prehash: false, format: 'recovered' }) of
\* @noble/secp256k1, read as the code reads it: r in bytes 0..31, s in bytes
\* 32..63, the recovery id in byte 64.  A deterministic signature stands for
\* ECDSA; the call throws for a key outside 1..n-1.
sign(hash, key) ==
  IF ~ValidSecret(key) THEN Throw("invalid private key")
  ELSE LET message == hash \o key
       IN  Return(Digest32(message, 9, 19) \o Digest32(message, 11, 23)
                    \o << Digest32(message, 13, 29)[1] % 2 >>)

\* toPrivateKeyBytes without its length check
toPrivateKeyBytes_AnyLength(value) == fromHex(value)

toPrivateKeyBytes(value) ==
  LET bytes == fromHex(value)
  IN  IF bytes.error # "" THEN bytes
      ELSE IF Len(bytes.value) # 32
        THEN Throw("Private key must be 32 bytes (64 hex chars).")
      ELSE bytes

\* `${field} must be hex or decimal.`
MustBeHexOrDecimal(field) ==
  CASE field = "Nonce" -> "Nonce must be hex or decimal."
    [] field = "Gas price" -> "Gas price must be hex or decimal."
    [] field = "Gas limit" -> "Gas limit must be hex or decimal."
    [] field = "Value" -> "Value must be hex or decimal."
    [] OTHER -> "Chain ID must be hex or decimal."

DecimalDigits == << "0", "1", "2", "3", "4", "5", "6", "7", "8", "9" >>

\* /^[0-9]+$/.test(value)
isDecimal(value) ==
  /\ value # <<>>
  /\ \A i \in 1..Len(value) : \E d \in 1..10 : value[i] = DecimalDigits[d]

\* BigInt(decimal) of the digits str[lo..hi] appended to value, the range
\* run as two halves
RECURSIVE DecimalFold(_, _, _, _)
DecimalFold(str, lo, hi, value) ==
  IF Len(value) < 0 THEN <<>>
  ELSE IF lo > hi THEN value
  ELSE IF lo = hi
    THEN DropLeadingZeros(MulAdd(value, 10, (CHOOSE d \in 1..10 : str[lo] = DecimalDigits[d]) - 1))
  ELSE DecimalFold(str, ((lo + hi) \div 2) + 1, hi,
                   DecimalFold(str, lo, (lo + hi) \div 2, value))

\* parseNumber that reads a text it cannot parse as 0n
parseNumber_Lenient(value, field) ==
  LET normalized == trim(value)
  IN  IF Len(normalized) >= 2 /\ normalized[1] = "0" /\ normalized[2] \in {"x", "X"}
        THEN LET hex == strip0x(normalized)
             IN  IF ~isHex(hex) THEN Return(<<>>)
                 ELSE Return(DropLeadingZeros([i \in 1..Len(hex) |-> HexVal(hex[i])]))
      ELSE IF ~isDecimal(normalized) THEN Return(<<>>)
      ELSE Return(DecimalFold(normalized, 1, Len(normalized), <<>>))

parseNumber(value, field) ==
  LET normalized == trim(value)
  IN  IF normalized = <<>> THEN Return(<<>>)
      ELSE IF Len(normalized) >= 2 /\ normalized[1] = "0" /\ normalized[2] \in {"x", "X"}
        THEN LET hex == strip0x(normalized)
             IN  IF ~isHex(hex) THEN Throw(MustBeHexOrDecimal(field))
                 ELSE Return(DropLeadingZeros([i \in 1..Len(hex) |-> HexVal(hex[i])]))
      ELSE IF ~isDecimal(normalized) THEN Throw(MustBeHexOrDecimal(field))
      ELSE Return(DecimalFold(normalized, 1, Len(normalized), <<>>))

\* one pass of the conversion of value.toString() on st = << value, digits >>
DecimalStep(st) ==
  IF st[1] = <<>> THEN st
  ELSE LET qr == BigDivMod(st[1], 10)
       IN  << qr[1], << DecimalDigits[qr[2] + 1] >> \o st[2] >>

RECURSIVE DecimalLoop(_, _)
DecimalLoop(n, st) ==
  IF Len(st) # 2 THEN <<>>
  ELSE IF n = 0 THEN st
  ELSE IF n = 1 THEN DecimalStep(st)
  ELSE DecimalLoop(n - (n \div 2), DecimalLoop(n \div 2, st))

\* value.toString() of a BigInt: a value of n hexadecimal digits has at most
\* 2n decimal digits
toString10(value) ==
  IF value = <<>> THEN << "0" >>
  ELSE DecimalLoop(2 * Len(value), << value, <<>> >>)[2]

Fields == {"nonce", "gasPrice", "gasLimit", "to", "value", "data", "chainId"}

defaultTx ==
  [nonce |-> << "0" >>,
   gasPrice |-> << "2", "0", "0", "0", "0", "0", "0", "0", "0", "0", "0" >>,
   gasLimit |-> << "2", "1", "0", "0", "0" >>,
   to |-> <<>>,
   value |-> << "0" >>,
   data |-> <<>>,
   chainId |-> << "1" >>]

EmptySignature ==
  [recovery |-> null, r |-> <<>>, s |-> <<>>, v |-> <<>>, signedRlp |-> <<>>,
   rawTx |-> <<>>, error |-> ""]

resetSignature(l) == [l EXCEPT !.signature = EmptySignature]

\* the first of the results that is an error, or the last one
FirstError(results) ==
  IF \E i \in 1..Len(results) : results[i].error # ""
  THEN results[CHOOSE i \in 1..Len(results) :
                 /\ results[i].error # ""
                 /\ \A j \in 1..(i - 1) : results[j].error = ""]
  ELSE results[Len(results)]

\* tx.to of computeUnsigned: 20 bytes, or none for a blank field
ToBytes(to) ==
  IF trim(to) = <<>> THEN Return(<<>>)
  ELSE LET toBytes == fromHex(to)
       IN  IF toBytes.error # "" THEN toBytes
           ELSE IF Len(toBytes.value) # 20
             THEN Throw("To address must be 20 bytes (40 hex chars).")
           ELSE toBytes

\* tx.data.trim() ? fromHex(tx.data) : new Uint8Array()
OptionalBytes(text) == IF trim(text) = <<>> THEN Return(<<>>) ELSE fromHex(text)

\* the array `payload` of computeUnsigned without the two placeholders
UnsignedItems_NoPlaceholders(nonce, gasPrice, gasLimit, toBytes, value, data, chainId) ==
  << bigintToBytes(nonce), bigintToBytes(gasPrice), bigintToBytes(gasLimit), toBytes,
     bigintToBytes(value), data, bigintToBytes(chainId) >>

\* the array `payload` of computeUnsigned
UnsignedItems(nonce, gasPrice, gasLimit, toBytes, value, data, chainId) ==
  << bigintToBytes(nonce), bigintToBytes(gasPrice), bigintToBytes(gasLimit), toBytes,
     bigintToBytes(value), data, bigintToBytes(chainId), <<>>, <<>> >>

\* the try block of computeUnsigned up to `payload`: the nine items, or the
\* first error in the order the statements run
UnsignedPayload(tx) ==
  LET nonce    == parseNumber(tx.nonce, "Nonce")
      gasPrice == parseNumber(tx.gasPrice, "Gas price")
      gasLimit == parseNumber(tx.gasLimit, "Gas limit")
      value    == parseNumber(tx.value, "Value")
      chainId  == parseNumber(tx.chainId, "Chain ID")
      toBytes  == ToBytes(tx.to)
      data     == OptionalBytes(tx.data)
      all      == << nonce, gasPrice, gasLimit, value, chainId, toBytes, data >>
  IN  IF FirstError(all).error # "" THEN Throw(FirstError(all).error)
      ELSE Return(UnsignedItems(nonce.value, gasPrice.value, gasLimit.value,
                                toBytes.value, value.value, data.value, chainId.value))

\* computeUnsigned that keeps an unsigned transaction it has cached
computeUnsigned_KeepCached(l) ==
  LET payload == UnsignedPayload(l.tx)
  IN  IF l.unsignedHashBytes # null THEN l
      ELSE IF payload.error # ""
      THEN [l EXCEPT !.unsignedRlpHex = <<>>,
                     !.unsignedHashHex = <<>>,
                     !.unsignedHashBytes = null,
                     !.rlpErrors = << payload.error >>]
      ELSE LET unsignedBytes == rlpEncode(ListOfBytes(payload.value)) \o <<>>
           IN  [l EXCEPT !.unsignedRlpHex = toHex(unsignedBytes),
                         !.unsignedHashBytes = Some(keccakBytes(unsignedBytes)),
                         !.unsignedHashHex = toHex(keccakBytes(unsignedBytes)),
                         !.rlpErrors = <<>>]

computeUnsigned(l) ==
  LET payload == UnsignedPayload(l.tx)
  IN  IF payload.error # ""
      THEN [l EXCEPT !.unsignedRlpHex = <<>>,
                     !.unsignedHashHex = <<>>,
                     !.unsignedHashBytes = null,
                     !.rlpErrors = << payload.error >>]
      ELSE LET unsignedBytes == rlpEncode(ListOfBytes(payload.value)) \o <<>>
           IN  [l EXCEPT !.unsignedRlpHex = toHex(unsignedBytes),
                         !.unsignedHashBytes = Some(keccakBytes(unsignedBytes)),
                         !.unsignedHashHex = toHex(keccakBytes(unsignedBytes)),
                         !.rlpErrors = <<>>]

\* pub.slice(1), hash.slice(-20)
Last20(bytes) == SubSeq(bytes, Len(bytes) - 19, Len(bytes))

updateKeyMaterial(l) ==
  LET l0  == [resetSignature(l) EXCEPT !.keyError = ""]
      pk  == toPrivateKeyBytes(l.privateKey)
      pub == getPublicKey(pk.value, FALSE)
  IN  IF trim(l.privateKey) = <<>>
        THEN [l0 EXCEPT !.publicKey = <<>>, !.address = <<>>]
      ELSE IF pk.error # ""
        THEN [l0 EXCEPT !.keyError = pk.error, !.publicKey = <<>>, !.address = <<>>]
      ELSE IF pub.error # ""
        THEN [l0 EXCEPT !.keyError = pub.error, !.publicKey = <<>>, !.address = <<>>]
      ELSE [l0 EXCEPT !.publicKey = toHex(pub.value),
                      !.address = toHex(Last20(keccakBytes(Tail(pub.value))))]

\* v = 27 + recovery, without the chain id
Eip155V_NoChainId(chainId, recovery) == BigInt(recovery + 27)

\* v = BigInt(recovery) + 35n + chainId * 2n
Eip155V(chainId, recovery) == DropLeadingZeros(MulAdd(chainId, 2, recovery + 35))

\* the signed payload of signTransaction for the signature bytes sig, or the
\* first error in the order the statements run
SignedPayload(tx, sig) ==
  LET chainId  == parseNumber(tx.chainId, "Chain ID")
      v        == Eip155V(chainId.value, sig[65])
      nonce    == parseNumber(tx.nonce, "Nonce")
      gasPrice == parseNumber(tx.gasPrice, "Gas price")
      gasLimit == parseNumber(tx.gasLimit, "Gas limit")
      toBytes  == OptionalBytes(tx.to)
      value    == parseNumber(tx.value, "Value")
      data     == OptionalBytes(tx.data)
      all      == << chainId, nonce, gasPrice, gasLimit, toBytes, value, data >>
  IN  IF FirstError(all).error # "" THEN Throw(FirstError(all).error)
      ELSE Return([v |-> v,
                   items |-> << bigintToBytes(nonce.value), bigintToBytes(gasPrice.value),
                                bigintToBytes(gasLimit.value), toBytes.value,
                                bigintToBytes(value.value), data.value,
                                bigintToBytes(v), SubSeq(sig, 1, 32), SubSeq(sig, 33, 64) >>])

\* signTransaction on the component l; .calls are the provider calls made
signTransaction(l) ==
  LET l0      == resetSignature(l)
      pk      == toPrivateKeyBytes(l.privateKey)
      sig     == sign(l.unsignedHashBytes[1], pk.value)
      payload == SignedPayload(l.tx, sig.value)
      Failed(message, made) ==
        [ltx |-> [l0 EXCEPT !.signature.error = message], calls |-> made]
  IN  IF l.unsignedHashBytes = null
        THEN Failed("Build the unsigned transaction first.", <<>>)
      ELSE IF trim(l.privateKey) = <<>>
        THEN Failed("Enter a private key before signing.", <<>>)
      ELSE IF pk.error # "" THEN Failed(pk.error, <<>>)
      ELSE IF sig.error # "" THEN Failed(sig.error, << "sign" >>)
      ELSE IF payload.error # "" THEN Failed(payload.error, << "sign" >>)
      ELSE LET signedBytes == rlpEncode(ListOfBytes(payload.value.items)) \o <<>>
           IN  [ltx |-> [l0 EXCEPT !.signature =
                           [recovery |-> Some(sig.value[65]),
                            r |-> toHex(SubSeq(sig.value, 1, 32)),
                            s |-> toHex(SubSeq(sig.value, 33, 64)),
                            v |-> toString10(payload.value.v),
                            signedRlp |-> toHex(signedBytes),
                            rawTx |-> << "0", "x" >> \o toHex(signedBytes),
                            error |-> ""]],
                calls |-> << "sign" >>]

\* the let declarations of the component
LtxDeclared ==
  [tx |-> defaultTx, privateKey |-> <<>>, publicKey |-> <<>>, address |-> <<>>,
   keyError |-> "", unsignedRlpHex |-> <<>>, unsignedHashHex |-> <<>>,
   unsignedHashBytes |-> null, rlpErrors |-> <<>>, signature |-> EmptySignature]

\* $: if (unsignedHashHex) { resetSignature(); }, which runs when the
\* component is created and whenever unsignedHashHex has been given another
\* value
HashReactive(before, l) ==
  IF l.unsignedHashHex # before.unsignedHashHex /\ l.unsignedHashHex # <<>>
  THEN resetSignature(l)
  ELSE l

\* the component once created: the reactive statements $: updateKeyMaterial(),
\* $: computeUnsigned() and $: if (unsignedHashHex) have each run once.  The
\* first two name no variable of the component, so nothing runs them again.
LtxInitial == HashReactive(LtxDeclared, computeUnsigned(updateKeyMaterial(LtxDeclared)))

\* ------------------------------------------------------------------------
\* Specification of the legacy transaction lab
\* ------------------------------------------------------------------------

\* how many fields of the form differ from defaultTx at once
MaxEdited == 1

\* 20 bytes as typed: '0x' and 'de' x 20
To20 == << "0", "x" >> \o [i \in 1..40 |-> IF i % 2 = 1 THEN "d" ELSE "e"]

\* the values typed into a field of the form
FieldValues(field) ==
  {defaultTx[field]} \cup
    CASE field = "nonce" -> { << "1" >>, << "z" >>, << "0", "x", "g" >> }
      [] field = "gasPrice" -> { <<>> }
      [] field = "gasLimit" -> { << "0", "x", "5", "2", "0", "8" >> }
      [] field = "to" -> { << "0", "x" >>, To20, << "0", "x", "1", "2" >>,
                           << "0", "x", "a", "b", "c" >> }
      [] field = "value" -> { << " ", "7", " " >>, << "-", "1" >> }
      [] field = "data" -> { << "0", "x", "a", "b", "c", "d" >>, << "0", "x", "1" >>,
                             << "0", "x", "z", "z" >> }
      [] OTHER -> { << "0", "x", "2", "5" >> }

\* the values typed into the private key field of the form
LtxTypedKeys == TypedKeys \cup { << "a", "b" >>, << "a", "b", "c" >>, << "z", "z" >> }

Edited(tx) == Cardinality({ field \in Fields : tx[field] # defaultTx[field] })

InitLegacyTx ==
  /\ ltx = LtxInitial
  /\ calls = <<>>
  /\ fn = "mount"
  /\ arg = <<>>
  /\ ret = <<>>
  /\ pc = "mounted"
  /\ adl = <<>>
  /\ tasks = <<>>
  /\ subtle = TRUE
  /\ lib = <<>>

\* what every handler of the legacy transaction lab leaves alone
LtxFrame == UNCHANGED <<ret, pc, adl, tasks, subtle, lib>>

\* bind:value={tx.nonce} .. bind:value={tx.chainId}: an input event.  No
\* reactive statement names tx, so only the field changes.
EditField ==
  /\ pc = "mounted" /\ ltx # <<>>
  /\ \E field \in Fields :
       \E value \in FieldValues(field) :
         /\ value # ltx.tx[field]
         /\ Edited([ltx.tx EXCEPT ![field] = value]) <= MaxEdited
         /\ ltx' = [ltx EXCEPT !.tx[field] = value]
         /\ arg' = << field >>
  /\ fn' = "tx"
  /\ calls' = <<>>
  /\ LtxFrame

\* bind:value={privateKey}: no reactive statement names privateKey
EditPrivateKey ==
  /\ pc = "mounted" /\ ltx # <<>>
  /\ \E value \in LtxTypedKeys :
       /\ value # ltx.privateKey
       /\ ltx' = [ltx EXCEPT !.privateKey = value]
  /\ fn' = "privateKey"
  /\ arg' = <<>>
  /\ calls' = <<>>
  /\ LtxFrame

LtxGeneratePrivateKey ==
  /\ pc = "mounted" /\ ltx # <<>>
  /\ \E secret \in RandomSecrets :
       ltx' = updateKeyMaterial([ltx EXCEPT !.privateKey = toHex(secret)])
  /\ fn' = "generatePrivateKey"
  /\ arg' = <<>>
  /\ calls' = << "randomSecretKey", "getPublicKey" >>
  /\ LtxFrame

ResetTx ==
  /\ pc = "mounted" /\ ltx # <<>>
  /\ ltx' = [ltx EXCEPT !.tx = defaultTx]
  /\ fn' = "resetTx"
  /\ arg' = <<>>
  /\ calls' = <<>>
  /\ LtxFrame

SignTransaction ==
  /\ pc = "mounted" /\ ltx # <<>>
  /\ ltx' = signTransaction(ltx).ltx
  /\ calls' = signTransaction(ltx).calls
  /\ fn' = "signTransaction"
  /\ arg' = <<>>
  /\ LtxFrame

NextLegacyTx ==
  EditField \/ EditPrivateKey \/ LtxGeneratePrivateKey \/ ResetTx \/ SignTransaction

SpecLegacyTx == InitLegacyTx /\ [][NextLegacyTx]_vars

\* ------------------------------------------------------------------------
\* Specification of the functions of the legacy transaction lab, called in
\* the states the form can be edited into
\* ------------------------------------------------------------------------

\* the forms with at most MaxEdited fields edited
Forms ==
  { tx \in [nonce : FieldValues("nonce"), gasPrice : FieldValues("gasPrice"),
            gasLimit : FieldValues("gasLimit"), to : FieldValues("to"),
            value : FieldValues("value"), data : FieldValues("data"),
            chainId : FieldValues("chainId")] : Edited(tx) <= MaxEdited }

InitLegacyTxCalls ==
  /\ ltx \in { [LtxInitial EXCEPT !.tx = tx, !.privateKey = key] :
                 tx \in Forms, key \in LtxTypedKeys }
  /\ calls = <<>>
  /\ fn = "tx"
  /\ arg = <<>>
  /\ ret = <<>>
  /\ pc = "mounted"
  /\ adl = <<>>
  /\ tasks = <<>>
  /\ subtle = TRUE
  /\ lib = <<>>

\* computeUnsigned() called as a function, and the reactive statement on
\* unsignedHashHex that follows an assignment to it
CallComputeUnsigned ==
  /\ pc = "mounted" /\ ltx # <<>>
  /\ ltx' = HashReactive(ltx, computeUnsigned(ltx))
  /\ fn' = "computeUnsigned"
  /\ arg' = <<>>
  /\ calls' = IF UnsignedPayload(ltx.tx).error = "" THEN << "keccak256" >> ELSE <<>>
  /\ LtxFrame

\* updateKeyMaterial() called as a function
CallUpdateKeyMaterial ==
  /\ pc = "mounted" /\ ltx # <<>>
  /\ ltx' = updateKeyMaterial(ltx)
  /\ fn' = "updateKeyMaterial"
  /\ arg' = <<>>
  /\ calls' = IF trim(ltx.privateKey) # <<>> /\ toPrivateKeyBytes(ltx.privateKey).error = ""
              THEN << "getPublicKey" >> ELSE <<>>
  /\ LtxFrame

NextLegacyTxCalls == CallComputeUnsigned \/ CallUpdateKeyMaterial \/ SignTransaction

SpecLegacyTxCalls == InitLegacyTxCalls /\ [][NextLegacyTxCalls]_vars

\* ------------------------------------------------------------------------
\* Claims on the legacy transaction lab
\* ------------------------------------------------------------------------

SignatureFields == {"r", "s", "v", "signedRlp", "rawTx"}

\* recovery, r, s, v, signedRlp and rawTx are all empty
NoSignature(signature) ==
  /\ signature.recovery = null
  /\ \A k \in SignatureFields : signature[k] = <<>>

\* C15: once an edit of a field of the form has been processed, the unsigned
\* RLP and hash are those of the fields as edited, or empty when a field is
\* malformed, and the signature state is empty.
C15_EditInvalidatesDownstream ==
  (ltx # <<>> /\ fn = "tx") =>
    /\ ltx.unsignedRlpHex = computeUnsigned(ltx).unsignedRlpHex
    /\ ltx.unsignedHashHex = computeUnsigned(ltx).unsignedHashHex
    /\ ltx.unsignedHashBytes = computeUnsigned(ltx).unsignedHashBytes
    /\ NoSignature(ltx.signature)

\* C16: a signTransaction that produces a raw transaction signs a hash that
\* is present and is the Keccak-256 of the unsigned RLP of the fields it
\* puts into the signed payload.
C16_SignedFromCurrentFields ==
  [][(fn' = "signTransaction" /\ ltx'.signature.rawTx # <<>>) =>
       /\ ltx.unsignedHashBytes # null
       /\ ltx.unsignedHashBytes = computeUnsigned(ltx).unsignedHashBytes]_vars

\* the number a chain id field denotes (below 2^31)
FieldNumber(text) ==
  LET normalized == trim(text)
  IN  IF Len(normalized) >= 2 /\ normalized[1] = "0" /\ normalized[2] \in {"x", "X"}
      THEN NumberOf([i \in 1..(Len(normalized) - 2) |-> HexVal(normalized[i + 2])], 16)
      ELSE NumberOf([i \in 1..Len(normalized) |->
                       (CHOOSE d \in 1..10 : normalized[i] = DecimalDigits[d]) - 1], 10)

\* the decimal numeral of a natural number
RECURSIVE DecimalOf(_)
DecimalOf(n) ==
  IF n < 10 THEN << DecimalDigits[n + 1] >>
  ELSE DecimalOf(n \div 10) \o << DecimalDigits[(n % 10) + 1] >>

\* the minimal big-endian bytes of the integer a field denotes
FieldBytes(text, field) == BytesOfDigits(parseNumber(text, field).value)

DefaultUnsignedRlpHex ==
  << "d", "0", "8", "0", "8", "5", "0", "4", "a", "8", "1", "7", "c", "8", "0", "0",
     "8", "2", "5", "2", "0", "8", "8", "0", "8", "0", "8", "0", "0", "1", "8", "0",
     "8", "0" >>

\* C18: after computeUnsigned has built the transaction, unsignedRlpHex is
\* the hex of the RLP of the nine-item list [nonce, gasPrice, gasLimit, to,
\* value, data, chainId, empty, empty] with the integers as minimal
\* big-endian bytes and `to` as 20 bytes or none; and in every state the
\* cached hash is the Keccak-256 of the cached unsigned RLP bytes, with
\* unsignedHashHex non-empty iff unsignedRlpHex non-empty iff
\* unsignedHashBytes non-null.
C18_UnsignedLayout ==
  ltx # <<>> =>
    /\ (ltx.unsignedHashHex # <<>>) <=> (ltx.unsignedRlpHex # <<>>)
    /\ (ltx.unsignedRlpHex # <<>>) <=> (ltx.unsignedHashBytes # null)
    /\ ltx.unsignedHashBytes # null =>
         /\ ltx.unsignedHashBytes[1] = keccakBytes(fromHex(ltx.unsignedRlpHex).value)
         /\ ltx.unsignedHashHex = toHex(ltx.unsignedHashBytes[1])
    /\ (fn = "computeUnsigned" /\ ltx.unsignedRlpHex # <<>>) =>
         LET items == << FieldBytes(ltx.tx.nonce, "Nonce"),
                         FieldBytes(ltx.tx.gasPrice, "Gas price"),
                         FieldBytes(ltx.tx.gasLimit, "Gas limit"),
                         fromHex(ltx.tx.to).value,
                         FieldBytes(ltx.tx.value, "Value"),
                         fromHex(ltx.tx.data).value,
                         FieldBytes(ltx.tx.chainId, "Chain ID"),
                         <<>>, <<>> >>
         IN  /\ Len(items[4]) \in {0, 20}
             /\ ltx.unsignedRlpHex = toHex(rlpEncode(ListOfBytes(items)))

\* computeUnsigned has rebuilt the transaction of a form with a 20-byte `to`
C18_Witness ==
  /\ ltx # <<>> /\ fn = "computeUnsigned"
  /\ ltx.tx.to = To20
  /\ Len(ltx.unsignedRlpHex) = Len(DefaultUnsignedRlpHex) + 40
  /\ ltx.unsignedRlpHex # <<>>

\* C19: with the other fields well-formed, computeUnsigned produces an
\* unsigned RLP exactly when `to` decodes to no byte or to 20 bytes; any
\* other `to` gives an error and no unsigned RLP or hash.
C19_ToAcceptedIffZeroOrTwenty ==
  (ltx # <<>> /\ fn = "computeUnsigned"
     /\ \A field \in Fields \ {"to"} : ltx.tx[field] = defaultTx[field]) =>
    LET decoded == fromHex(ltx.tx.to)
        denotes == decoded.error = "" /\ Len(decoded.value) \in {0, 20}
    IN  /\ denotes <=> ltx.unsignedRlpHex # <<>>
        /\ ~denotes =>
             /\ ltx.rlpErrors # <<>>
             /\ ltx.unsignedRlpHex = <<>>
             /\ ltx.unsignedHashHex = <<>>
             /\ ltx.unsignedHashBytes = null

\* a key that is 32 bytes of hex
Is32BytesHex(key) == isHex(strip0x(key)) /\ Len(strip0x(key)) = 64

\* C20: a signTransaction run while unsignedHashBytes is null, or the
\* private key is blank, or the key is not 32 bytes of hex, sets
\* signature.error, does not call the signer and leaves recovery, r, s, v,
\* signedRlp and rawTx empty; and after any step a non-empty signature.error
\* comes with all of them empty.
C20_NoSignWithoutPrerequisites ==
  [][/\ (/\ fn' = "signTransaction"
         /\ \/ ltx.unsignedHashBytes = null
            \/ trim(ltx.privateKey) = <<>>
            \/ ~Is32BytesHex(ltx.privateKey)) =>
          /\ ltx'.signature.error # ""
          /\ calls' = <<>>
          /\ NoSignature(ltx'.signature)
     /\ ltx'.signature.error # "" => NoSignature(ltx'.signature)]_vars

\* signTransaction refused to sign after computeUnsigned had failed
C20_Witness ==
  /\ ltx # <<>> /\ fn = "signTransaction"
  /\ ltx.unsignedHashBytes = null
  /\ ltx.signature.error = "Build the unsigned transaction first."
  /\ calls = <<>>

NumericFields == {"nonce", "gasPrice", "gasLimit", "value", "chainId"}

\* a numeric field as typed: blank, decimal digits, or 0x and hexadecimal
\* digits
IsNumeral(text) ==
  LET t == trim(text)
  IN  \/ \A i \in 1..Len(t) : \E d \in 1..10 : t[i] = DecimalDigits[d]
      \/ /\ Len(t) >= 2 /\ t[1] = "0" /\ t[2] \in {"x", "X"}
         /\ \A i \in 3..Len(t) :
              \E d \in 1..16 : t[i] = HexLower[d] \/ t[i] = HexUpper[d]

\* `to` or `data` as typed: an even number of hexadecimal digits after an
\* optional 0x
IsHexText(text) ==
  LET t == strip0x(text)
  IN  /\ Len(t) % 2 = 0
      /\ \A i \in 1..Len(t) :
           \E d \in 1..16 : t[i] = HexLower[d] \/ t[i] = HexUpper[d]

\* a field of the form is malformed
Malformed(tx) ==
  \/ \E field \in NumericFields : ~IsNumeral(tx[field])
  \/ ~IsHexText(tx.to)
  \/ ~IsHexText(tx.data)

\* C21: a computeUnsigned on a form with a malformed field (a numeric field
\* that is neither decimal digits nor 0x-prefixed hex, or a `to` or `data`
\* that is odd-length or non-hex) ends with exactly one message in rlpErrors
\* and with unsignedRlpHex, unsignedHashHex and unsignedHashBytes cleared;
\* and in every state rlpErrors is empty exactly when unsignedHashBytes is
\* non-null.
C21_MalformedFieldRejected ==
  ltx # <<>> =>
    /\ (fn = "computeUnsigned" /\ Malformed(ltx.tx)) =>
         /\ Len(ltx.rlpErrors) = 1
         /\ ltx.unsignedRlpHex = <<>>
         /\ ltx.unsignedHashHex = <<>>
         /\ ltx.unsignedHashBytes = null
    /\ (ltx.rlpErrors = <<>>) <=> (ltx.unsignedHashBytes # null)

\* computeUnsigned has rejected a form whose nonce is the letter z
C21_Witness ==
  /\ ltx # <<>> /\ fn = "computeUnsigned"
  /\ ltx.tx.nonce = << "z" >>
  /\ ltx.rlpErrors = << "Nonce must be hex or decimal." >>
  /\ ltx.unsignedHashBytes = null

\* step 1 of the address pipeline of a chain
StepOne(chain, s) ==
  CASE chain = "ethereum" -> deriveEthPublicKey(s)
    [] chain = "bitcoin" -> deriveBtcPublicKey(s)
    [] OTHER -> deriveCosmosPublicKey(s)

StepOneName(chain) ==
  CASE chain = "ethereum" -> "deriveEthPublicKey"
    [] chain = "bitcoin" -> "deriveBtcPublicKey"
    [] OTHER -> "deriveCosmosPublicKey"

PublicKeyCaches ==
  {"ethPublicUncompressed", "ethPublicNoPrefix", "btcPublicCompressed",
   "btcPublicUncompressed", "cosmosPublicCompressed", "cosmosPublicUncompressed"}

\* the address lab with `key` typed and `chain` selected
AdlWithKey(key, chain) ==
  Reactive([AdlInitial EXCEPT !.privateKey = key, !.chain = chain])

\* C22: for a private key that is not, after trimming and an optional 0x,
\* exactly 64 hexadecimal characters (odd length, non-hex, another byte
\* length, empty), step 1 of every address pipeline sets an error, calls no
\* key provider and produces no public key, and updateKeyMaterial of the
\* transaction lab sets keyError and leaves publicKey and address empty.
C22_KeyRejectedUnless32BytesHex ==
  (ltx # <<>> /\ fn = "updateKeyMaterial" /\ ~Is32BytesHex(ltx.privateKey)) =>
    /\ \A chain \in Chains :
         LET s == AdlWithKey(ltx.privateKey, chain)
         IN  /\ StepOne(chain, s).error # ""
             /\ ProviderCalls(StepOneName(chain), s) = <<>>
             /\ \A k \in PublicKeyCaches : StepOne(chain, s)[k] = <<>>
    /\ ltx.keyError # ""
    /\ ltx.publicKey = <<>>
    /\ ltx.address = <<>>
    /\ calls = <<>>

\* the same for the keys that are not blank
C22_NonBlankKeyRejected ==
  (ltx # <<>> /\ fn = "updateKeyMaterial" /\ ~Is32BytesHex(ltx.privateKey)
     /\ trim(ltx.privateKey) # <<>>) =>
    /\ \A chain \in Chains :
         LET s == AdlWithKey(ltx.privateKey, chain)
         IN  /\ StepOne(chain, s).error # ""
             /\ ProviderCalls(StepOneName(chain), s) = <<>>
             /\ \A k \in PublicKeyCaches : StepOne(chain, s)[k] = <<>>
    /\ ltx.keyError # ""
    /\ ltx.publicKey = <<>>
    /\ ltx.address = <<>>
    /\ calls = <<>>

\* ------------------------------------------------------------------------
\* Specification of the calls of toEip55Checksum
\* ------------------------------------------------------------------------

\* 40 hexadecimal digits, digit i being (a * i + b) mod 16
PatternAddress(a, b) == [i \in 1..40 |-> HexLower[((a * i + b) % 16) + 1]]

LowerAddresses == { PatternAddress(a, b) : a \in {1, 3, 7}, b \in 0..15 }

\* the address strings passed to toEip55Checksum: lower case, upper case,
\* with and without 0x, and strings that are not 40 hexadecimal characters
Eip55Inputs ==
  LowerAddresses
    \cup { << "0", "x" >> \o address : address \in LowerAddresses }
    \cup { [i \in 1..40 |-> toUpperCase(address[i])] : address \in LowerAddresses }
    \cup { <<>>, << "0", "x" >>,
           SubSeq(PatternAddress(1, 0), 1, 39),
           PatternAddress(1, 0) \o << "0" >>,
           << "0", "x" >> \o SubSeq(PatternAddress(3, 5), 1, 38),
           [i \in 1..40 |-> "g"],
           << "0", "x" >> \o [i \in 1..40 |-> "z"],
           [PatternAddress(7, 2) EXCEPT ![17] = "x"],
           [PatternAddress(7, 2) EXCEPT ![40] = " "] }

InitEip55 ==
  /\ fn = "toEip55Checksum"
  /\ arg \in Eip55Inputs
  /\ ret = <<>>
  /\ pc = "ready"
  /\ LabsUnmounted

CallToEip55Checksum ==
  /\ pc = "ready"
  /\ fn = "toEip55Checksum"
  /\ ret' = toEip55Checksum(arg)
  /\ pc' = "done"
  /\ UNCHANGED <<fn, arg, labVars>>

NextEip55 == CallToEip55Checksum

SpecEip55 == InitEip55 /\ [][NextEip55]_vars

\* the characters of a string are hexadecimal digits
AllHexDigits(str) ==
  \A i \in 1..Len(str) : \E d \in 1..16 : str[i] = HexLower[d] \/ str[i] = HexUpper[d]

\* the lower-case form of a hexadecimal string
LowerHex(str) == [i \in 1..Len(str) |-> HexLower[HexVal(str[i]) + 1]]

\* the result is the EIP-55 form of the 40 hexadecimal characters `address`
IsEip55Of(result, address) ==
  LET lower == LowerHex(address)
      hash  == keccak256(Utf8(lower))
  IN  /\ Len(result) = 42
      /\ result[1] = "0" /\ result[2] = "x"
      /\ \A i \in 1..40 :
           LET c == result[i + 2]
           IN  IF HexVal(lower[i]) < 10 THEN c = lower[i]
               ELSE /\ HexVal(hash[i]) >= 8 => c = HexUpper[HexVal(lower[i]) + 1]
                    /\ HexVal(hash[i]) < 8 => c = lower[i]
      /\ LowerHex(SubSeq(result, 3, 42)) = lower

\* C23: for an address of 40 hexadecimal characters (after an optional 0x)
\* toEip55Checksum returns 0x and 40 characters, the digits unchanged, the
\* letter at position i upper case exactly when nibble i of the Keccak-256
\* of the lower-case 40-character string is 8 or more, and lower-casing the
\* result gives the lower-case address back; any other input is rejected
\* with an error.
C23_Eip55Checksum ==
  (fn = "toEip55Checksum" /\ pc = "done") =>
    LET stripped == strip0x(arg)
    IN  IF Len(stripped) = 40 /\ AllHexDigits(stripped)
        THEN ret.error = "" /\ IsEip55Of(ret.value, stripped)
        ELSE ret.error # ""

\* the same for the inputs of 40 hexadecimal characters and the inputs of
\* another length
C23_HexOrOtherLength ==
  (fn = "toEip55Checksum" /\ pc = "done") =>
    LET stripped == strip0x(arg)
    IN  /\ (Len(stripped) = 40 /\ AllHexDigits(stripped)) =>
             ret.error = "" /\ IsEip55Of(ret.value, stripped)
        /\ Len(stripped) # 40 => ret.error # ""

\* ------------------------------------------------------------------------
\* Specification of the address lab driven through its buttons
\* ------------------------------------------------------------------------
\* A handler runs when its button is clicked, and a disabled button cannot
\* be clicked.  The text field, the chain select and the Generate button
\* are never disabled.

\* the negation of the `disabled` attribute of the button of a handler
ButtonEnabled(name, s) ==
  /\ ~s.loading
  /\ CASE name \in {"runAll", "deriveEthPublicKey", "deriveBtcPublicKey",
                    "deriveCosmosPublicKey"} -> trim(s.privateKey) # <<>>
       [] name = "deriveEthHash" -> s.ethPublicNoPrefix # <<>>
       [] name = "deriveEthAddress" -> s.ethPubkeyKeccak # <<>>
       [] name = "deriveEthChecksum" -> s.ethAddress # <<>>
       [] name = "deriveBtcHash160" -> s.btcPublicCompressed # <<>>
       [] name = "deriveBtcAddressTypes" -> s.btcPubkeyHash160 # <<>>
       [] name = "deriveCosmosHash160" -> s.cosmosPublicCompressed # <<>>
       [] OTHER -> s.cosmosPubkeyHash160 # <<>>

ClickRunAll == ButtonEnabled("runAll", adl) /\ RunAll

ClickDeriveEthPublicKey == ButtonEnabled("deriveEthPublicKey", adl) /\ DeriveEthPublicKey

ClickDeriveEthHash == ButtonEnabled("deriveEthHash", adl) /\ DeriveEthHash

ClickDeriveEthAddress == ButtonEnabled("deriveEthAddress", adl) /\ DeriveEthAddress

ClickDeriveEthChecksum == ButtonEnabled("deriveEthChecksum", adl) /\ DeriveEthChecksum

ClickDeriveBtcPublicKey == ButtonEnabled("deriveBtcPublicKey", adl) /\ DeriveBtcPublicKey

ClickDeriveBtcHash160 == ButtonEnabled("deriveBtcHash160", adl) /\ DeriveBtcHash160

ClickDeriveBtcAddressTypes ==
  ButtonEnabled("deriveBtcAddressTypes", adl) /\ DeriveBtcAddressTypes

ClickDeriveCosmosPublicKey ==
  ButtonEnabled("deriveCosmosPublicKey", adl) /\ DeriveCosmosPublicKey

ClickDeriveCosmosHash160 ==
  ButtonEnabled("deriveCosmosHash160", adl) /\ DeriveCosmosHash160

ClickDeriveCosmosAddress ==
  ButtonEnabled("deriveCosmosAddress", adl) /\ DeriveCosmosAddress

\* the message of the exception a rejected subtle.digest throws
DigestFailure == "The operation failed for an operation-specific reason"

\* the promise of subtle.digest a task awaits is rejected: the catch block
\* of its handler assigns error, the finally block clears loading, and the
\* runAll that awaits the handler goes on
Rejected(s, t, avail) ==
  AwaitedBy(Finished([s EXCEPT !.error = DigestFailure, !.loading = FALSE], <<>>), t, avail)

\* subtle.digest fails for one of the suspended tasks
Reject ==
  /\ pc = "mounted" /\ adl # <<>>
  /\ \E i \in 1..Len(tasks) :
       /\ Outcome(Rejected(adl, tasks[i], subtle),
                  SubSeq(tasks, 1, i - 1) \o SubSeq(tasks, i + 1, Len(tasks)))
  /\ fn' = "rejected"
  /\ arg' = <<>>
  /\ LabFrame

NextAddressLabUi ==
  \/ SetPrivateKey \/ SetChain \/ GeneratePrivateKey
  \/ ClickDeriveEthPublicKey \/ ClickDeriveEthHash \/ ClickDeriveEthAddress
  \/ ClickDeriveEthChecksum
  \/ ClickDeriveBtcPublicKey \/ ClickDeriveBtcHash160 \/ ClickDeriveBtcAddressTypes
  \/ ClickDeriveCosmosPublicKey \/ ClickDeriveCosmosHash160 \/ ClickDeriveCosmosAddress
  \/ ClickRunAll \/ Resume \/ Reject

SpecAddressLabUi == InitAddressLab /\ [][NextAddressLabUi]_vars

\* ------------------------------------------------------------------------
\* Claims on the address lab driven through its buttons
\* ------------------------------------------------------------------------

\* HASH160 of a byte string, read from lib where the lab has computed it
Hash160Of(input) ==
  IF input \in DOMAIN lib.hash160 THEN lib.hash160[input] ELSE hash160(input)

\* Base58Check of a version byte and a payload, read from lib likewise
Base58CheckOf(version, payload) ==
  IF << version, payload >> \in DOMAIN lib.base58Check
  THEN lib.base58Check[version, payload]
  ELSE base58Check(version, payload)

\* the three Bitcoin addresses are all set
BtcAddressesSet(s) == s.btcP2pkh # <<>> /\ s.btcP2shP2wpkh # <<>> /\ s.btcP2wpkh # <<>>

\* C24: in every state where btcP2pkh, btcP2shP2wpkh and btcP2wpkh are all
\* non-empty, with h the bytes of the cached btcPubkeyHash160, they are
\* Base58Check(0x00, h), Base58Check(0x05, HASH160(0x00 0x14 h)) and the
\* Bech32 encoding under "bc" of witness version 0 followed by h regrouped
\* from 8 to 5 bits with padding.
C24_BtcAddressesOfCachedHash ==
  (adl # <<>> /\ BtcAddressesSet(adl)) =>
    LET h == fromHexAdl(adl.btcPubkeyHash160).value
    IN  /\ adl.btcP2pkh = Base58CheckOf(0, h)
        /\ adl.btcP2shP2wpkh = Base58CheckOf(5, Hash160Of(<< 0, 20 >> \o h))
        /\ adl.btcP2wpkh =
             bech32Encode(<< "b", "c" >>, << 0 >> \o convertBits(h, 8, 5, TRUE).out)

\* the compressed public key of the private key typed into s, as hex
CompressedKeyOf(s) ==
  LET pk == toPrivateKeyBytesAdl(s.privateKey)
  IN  IF pk.error # "" \/ ~ValidSecret(pk.value) THEN <<>>
      ELSE toHex(getPublicKey(pk.value, TRUE).value)

\* the hash cached under `hash` is the HASH160 of the public key cached
\* under `key`, which is the one of the private key, and `of` is selected
HashOfCurrentKey(s, hash, key, of) ==
  s[hash] # <<>> =>
    /\ s.chain = of
    /\ s[key] # <<>>
    /\ s[key] = CompressedKeyOf(s)
    /\ s[hash] = toHex(Hash160Of(fromHexAdl(s[key]).value))

\* C26: in every state a non-empty btcPubkeyHash160 (cosmosPubkeyHash160) is
\* the HASH160 of the cached compressed public key, which is the one derived
\* from the current privateKey under the selected chain, also when the key
\* or the chain was changed while the hash step awaited its digest.
C26_HashOfCurrentKey ==
  adl # <<>> =>
    /\ HashOfCurrentKey(adl, "btcPubkeyHash160", "btcPublicCompressed", "bitcoin")
    /\ HashOfCurrentKey(adl, "cosmosPubkeyHash160", "cosmosPublicCompressed", "cosmos")

\* deriveBtcAddressTypes is suspended at an await
AddressTypesRunning == \E i \in 1..Len(tasks) : tasks[i].fn = "deriveBtcAddressTypes"

\* C28: when deriveBtcAddressTypes is not running (it has completed, with
\* or without an error), btcP2pkh, btcP2shP2wpkh and btcP2wpkh are all
\* non-empty or all empty; a failure of the digest provider part-way
\* through does not leave some of them set and the others empty.
C28_AddressTypesAllOrNothing ==
  (adl # <<>> /\ ~AddressTypesRunning) =>
    \/ BtcAddressesSet(adl)
    \/ adl.btcP2pkh = <<>> /\ adl.btcP2shP2wpkh = <<>> /\ adl.btcP2wpkh = <<>>

\* C27: loading is true as long as an async step is in flight: in no state
\* is a step awaiting a digest while loading is false (and the buttons of
\* the steps are therefore enabled), so that at most one async step runs at
\* a time.
C27_LoadingWhileInFlight ==
  adl # <<>> =>
    /\ tasks # <<>> => adl.loading
    /\ Len(tasks) <= 1

\* computeUnsigned followed by signTransaction on a component just declared,
\* with the form tx and the key typed
SignedAfresh(tx, key) ==
  signTransaction(computeUnsigned([LtxDeclared EXCEPT !.tx = tx, !.privateKey = key])).ltx

\* C25: a signTransaction that follows a computeUnsigned leaves the unsigned
\* RLP, the hash and the whole signature state (r, s, v, signedRlp, rawTx)
\* that the same two calls give on a fresh component with the same fields
\* and key, whatever was built, signed or left over in the component before.
C25_SigningReproducible ==
  [][(fn = "computeUnsigned" /\ fn' = "signTransaction") =>
       LET fresh == SignedAfresh(ltx'.tx, ltx'.privateKey)
       IN  /\ ltx'.unsignedRlpHex = fresh.unsignedRlpHex
           /\ ltx'.unsignedHashHex = fresh.unsignedHashHex
           /\ ltx'.unsignedHashBytes = fresh.unsignedHashBytes
           /\ ltx'.signature = fresh.signature]_vars

\* a transaction with nonce 1 has been rebuilt and signed in a component
\* that held the unsigned transaction of defaultTx
C25_Witness ==
  /\ ltx # <<>> /\ fn = "signTransaction"
  /\ ltx.tx.nonce = << "1" >>
  /\ ltx.unsignedRlpHex \notin { <<>>, DefaultUnsignedRlpHex }
  /\ Len(ltx.signature.rawTx) > 2

\* the uncompressed public key of the private key typed into s, as hex
UncompressedKeyOf(s) ==
  LET pk == toPrivateKeyBytesAdl(s.privateKey)
  IN  IF pk.error # "" \/ ~ValidSecret(pk.value) THEN <<>>
      ELSE toHex(getPublicKey(pk.value, FALSE).value)

\* C29: in every state the Ethereum caches form a prefix of the step order
\* (ethChecksumAddress set implies ethAddress set implies ethPubkeyKeccak
\* set implies ethPublicNoPrefix and ethPublicUncompressed set), and every
\* value that is set is the one computed from the current privateKey: the
\* uncompressed public key, the same without its first byte, the Keccak-256
\* of those 64 bytes, 0x and the last 40 hex characters of the hash, and
\* the checksummed form of that address.
C29_EthCachesPrefixOfCurrentKey ==
  adl # <<>> =>
    /\ adl.ethChecksumAddress # <<>> => adl.ethAddress # <<>>
    /\ adl.ethAddress # <<>> => adl.ethPubkeyKeccak # <<>>
    /\ adl.ethPubkeyKeccak # <<>> => adl.ethPublicNoPrefix # <<>>
    /\ adl.ethPublicNoPrefix # <<>> <=> adl.ethPublicUncompressed # <<>>
    /\ adl.ethPublicUncompressed # <<>> =>
         /\ adl.ethPublicUncompressed = UncompressedKeyOf(adl)
         /\ Len(adl.ethPublicUncompressed) = 130
         /\ adl.ethPublicNoPrefix = SubSeq(adl.ethPublicUncompressed, 3, 130)
    /\ adl.ethPubkeyKeccak # <<>> =>
         /\ adl.ethPubkeyKeccak = keccak256(fromHexAdl(adl.ethPublicNoPrefix).value)
         /\ Len(adl.ethPubkeyKeccak) = 64
    /\ adl.ethAddress # <<>> =>
         adl.ethAddress = << "0", "x" >> \o SubSeq(adl.ethPubkeyKeccak, 25, 64)
    /\ adl.ethChecksumAddress # <<>> =>
         IsEip55Of(adl.ethChecksumAddress, SubSeq(adl.ethAddress, 3, 42))

\* the four Ethereum steps have run for the key '11' x 32
C29_Witness ==
  /\ adl # <<>> /\ fn = "deriveEthChecksum"
  /\ adl.privateKey = KeyA
  /\ adl.ethChecksumAddress # <<>>
  /\ adl.ethPublicUncompressed # <<>>

\* the outputs of the steps of a chain, in the order runAll runs them
StepOutputs(chain) ==
  CASE chain = "ethereum" ->
         << {"ethPublicUncompressed", "ethPublicNoPrefix"}, {"ethPubkeyKeccak"},
            {"ethAddress"}, {"ethChecksumAddress"} >>
    [] chain = "bitcoin" ->
         << {"btcPublicCompressed", "btcPublicUncompressed"}, {"btcPubkeyHash160"},
            {"btcP2pkh", "btcP2shP2wpkh", "btcP2wpkh"} >>
    [] OTHER ->
         << {"cosmosPublicCompressed", "cosmosPublicUncompressed"},
            {"cosmosPubkeyHash160"}, {"cosmosAddress"} >>

\* the chain whose steps a task suspended inside runAll belongs to
ChainOfTask(t) == IF t.fn = "deriveCosmosHash160" THEN "cosmos" ELSE "bitcoin"

\* a task after the delivery of the digest it awaits, nothing in between
Delivered(r, avail) ==
  IF r.task = <<>> THEN r ELSE Resumed(r.adl, r.task[1], avail)

\* runAll from the component state s with every digest delivered as soon as
\* it is awaited (three awaits at most) and nothing else in between
RunAllToEnd(s, avail) ==
  Delivered(Delivered(Delivered(runAll(s, avail), avail), avail), avail).adl

\* some step of the chain has an output missing, and no output of a later
\* step is set
StoppedAtFirstError(s, chain) ==
  \E k \in 1..Len(StepOutputs(chain)) :
    /\ \E out \in StepOutputs(chain)[k] : s[out] = <<>>
    /\ \A j \in (k + 1)..Len(StepOutputs(chain)) :
         \A out \in StepOutputs(chain)[j] : s[out] = <<>>

\* C30: runAll runs the steps of the selected chain in order and stops at
\* the first error.  A runAll that runs to its end with nothing in between
\* and ends with an empty error has set every output of the chain; and when
\* a runAll ends with a non-empty error, a step of its chain has an output
\* missing and no output of a later step is set.
C30_RunAllInOrder ==
  [][/\ (adl # <<>> /\ ButtonEnabled("runAll", adl)) =>
          LET end == RunAllToEnd(adl, subtle)
          IN  end.error = "" =>
                \A k \in 1..Len(StepOutputs(adl.chain)) :
                  \A out \in StepOutputs(adl.chain)[k] : end[out] # <<>>
     /\ (fn' = "runAll" /\ tasks' = tasks /\ adl'.error # "") =>
          StoppedAtFirstError(adl', adl.chain)
     /\ \A i \in 1..Len(tasks) :
          (/\ fn' \in {"digest", "rejected"}
           /\ tasks[i].runAll
           /\ tasks' = SubSeq(tasks, 1, i - 1) \o SubSeq(tasks, i + 1, Len(tasks))
           /\ adl'.error # "") =>
            StoppedAtFirstError(adl', ChainOfTask(tasks[i]))]_vars

\* the same without the runs that end with an error
C30_CompleteWhenUndisturbed ==
  (adl # <<>> /\ ButtonEnabled("runAll", adl)) =>
    LET end == RunAllToEnd(adl, subtle)
    IN  end.error = "" =>
          \A k \in 1..Len(StepOutputs(adl.chain)) :
            \A out \in StepOutputs(adl.chain)[k] : end[out] # <<>>

\* subtle.digest settles every promise it has returned, by a digest or by a
\* rejection
SpecAddressLabUiFair == SpecAddressLabUi /\ WF_vars(Reject \/ Resume)

\* a runAll is suspended at an await
RunAllPending == \E i \in 1..Len(tasks) : tasks[i].runAll

\* a runAll that is suspended at an await comes to its end
C30_RunAllTerminates == RunAllPending ~> ~RunAllPending

====
